---- MODULE Spec2Model ----
(***************************************************************************)
(* A model of the Eagle library projection engine (src/src/source.py,      *)
(* EagleLibrarySource) with the persisted library store it reads and       *)
(* writes, an external writer of that store, and a millisecond clock.      *)
(*                                                                         *)
(* Python objects are kept in two heaps (fheap for File objects, dheap for *)
(* Folder objects of the cache) so that aliasing between id_map,           *)
(* dir_file_map, dir_map, path_dir_map and children_ lists is the          *)
(* program's: a mutation in place is seen through every reference, a       *)
(* reload builds a new object.  A name is the sequence of its dot-free     *)
(* components (<<"a","png">> is "a.png"); a path is a sequence of names.   *)
(***************************************************************************)
EXTENDS Integers, Sequences, FiniteSets, TLC

\* ------------------------------------------------------------ bounds
MaxTicks == 3                       \* how often the clock advances
MaxOps == 2                         \* calls of the mutation engine in a run
MaxExt == 1                         \* writes of the external application in a run

\* ------------------------------------------------------ program constants
Throttle == 1000                    \* check_and_update_cache: 1 second
TickStep == Throttle \div 2         \* the clock advances by half an interval
T0 == Throttle                      \* now() at construction; now() is an epoch time
MaxClock == T0 + MaxTicks * TickStep

NULL_ID == "null"                   \* id of the unclassified folder
ROOT_ID == ""                       \* Folder() default id, the root's
VOID_NAME == <<"unclassified">>
NoFile == [nofile |-> TRUE]         \* a path that does not exist in the store

\* ------------------------------------------------------------ maps
MapPut(f, k, v) == [x \in (DOMAIN f) \cup {k} |-> IF x = k THEN v ELSE f[x]]
MapDel(f, k) == [x \in (DOMAIN f) \ {k} |-> f[x]]
EmptyMap == [x \in {} |-> 0]
\* d.get(k, {}) of a dict of dicts
Get2(m, k) == IF k \in DOMAIN m THEN m[k] ELSE EmptyMap
\* m.setdefault(k, {})[n] = v
SetDefaultPut(m, k, n, v) == MapPut(m, k, MapPut(Get2(m, k), n, v))
\* m.get(k, {}).pop(n, None)
GetPop(m, k, n) == IF k \in DOMAIN m THEN [m EXCEPT ![k] = MapDel(@, n)] ELSE m
\* the address of a new object: the least one not in use
NewAddr(heap) == CHOOSE a \in 1..(Cardinality(DOMAIN heap) + 1) :
                    a \notin DOMAIN heap /\ \A b \in 1..(a - 1) : b \in DOMAIN heap

\* ------------------------------------------------------------ names
\* Path(p).stem, Path(p).suffix.lstrip(".") and Path(p).name of a name
stem(n) == IF Len(n) > 1 THEN SubSeq(n, 1, Len(n) - 1) ELSE n
suffix(n) == IF Len(n) > 1 THEN n[Len(n)] ELSE ""
parent(path) == IF path = <<>> THEN <<>> ELSE SubSeq(path, 1, Len(path) - 1)
name_of(path) == IF path = <<>> THEN <<>> ELSE path[Len(path)]

\* ------------------------------------------------------------ records
\* models.Folder: a node of the persisted tree, with its children list
TreeFolder(id, name, mt, kids) ==
    [id |-> id, name |-> name, modificationTime |-> mt, children_ |-> kids]
\* models.Folder as the cache builds it; children_ holds references:
\* [k |-> "meta", id] a top-level Folder of self.meta, [k |-> "void"] the
\* void_folder object, [k |-> "obj", a] a Folder object of dheap
Folder(id, name, mt, kids) ==
    [id |-> id, name |-> name, modificationTime |-> mt, children_ |-> kids]
\* models.File (the fields the engine writes or reads)
File(id, name, ext, size, mtime, mt, folders, del) ==
    [id |-> id, name |-> name, ext |-> ext, size |-> size, mtime |-> mtime,
     modificationTime |-> mt, folders |-> folders, isDeleted |-> del]
fullname(f) == f.name \o <<f.ext>>

VARIABLES
    clock,           \* now(): milliseconds
    meta_json,       \* store: metadata.json, [modificationTime, folders]
    images,          \* store: images/<id>/metadata.json, id -> File record
    mtime_json,      \* store: mtime.json, NoFile or [keys, val] (an ordered dict)
    content,         \* store: images/<id>/<name>.<ext>, <<id, fullname>> -> size
    meta,            \* self.meta
    fheap,           \* File objects
    dheap,           \* Folder objects of the cache
    id_map,          \* self.id_map: id -> File object
    dir_map,         \* self.dir_map: id -> Folder object
    dir_file_map,    \* self.dir_file_map: folder id -> (name -> File object)
    path_dir_map,    \* self.path_dir_map: path -> Folder object
    update_time,     \* self.update_time, the watermark
    last_check_time, \* self._last_check_time
    ret,             \* the last call: its name, arguments and outcome
    ops,             \* history: calls of the engine and external writes so far
    last_run,        \* history: the last execution of _update_cache through
                     \*   check_and_update_cache: when it started, whether it returned
    quiet,           \* history: passes completed since the store or the cache
                     \*   was last written by anything else (at most 2)
    inode_map,       \* self.src.inode_map of the request adapter: inode -> node
    children_map,    \* self.src.children_map: inode -> (name -> child inode)
    folder_parent_map, \* self.src.folder_parent_map: folder inode -> parent inode
    _open_files,     \* EagleLibrary._open_files: fh -> <<inode, type>>
    _next_fh,        \* EagleLibrary._next_fh
    in_pass          \* the pass in progress: NoPass, or the change index it read
                     \*   and the time check_and_update_cache took at its start

store_vars == <<meta_json, images, mtime_json, content>>
cache_vars == <<meta, fheap, dheap, id_map, dir_map, dir_file_map, path_dir_map>>
\* the state the request adapter (fuse_operations.py) works on
proj_vars == <<inode_map, children_map, folder_parent_map>>
fuse_vars == <<inode_map, children_map, folder_parent_map, _open_files, _next_fh>>
vars == <<clock, meta_json, images, mtime_json, content, meta, fheap, dheap, id_map, dir_map,
          dir_file_map, path_dir_map, update_time, last_check_time, ret, ops, last_run, quiet,
          inode_map, children_map, folder_parent_map, _open_files, _next_fh, in_pass>>
hist_vars == <<ops, last_run, quiet>>

\* the store and the engine's memory as one value, threaded through the steps
\* of a call; raised names the exception that ended it
World == [meta_json |-> meta_json, images |-> images, mtime_json |-> mtime_json,
          content |-> content,
          meta |-> meta, fheap |-> fheap, dheap |-> dheap, id_map |-> id_map,
          dir_map |-> dir_map, dir_file_map |-> dir_file_map,
          path_dir_map |-> path_dir_map, update_time |-> update_time,
          raised |-> "none", write_fails |-> FALSE]

\* ------------------------------------------------------------ garbage
\* Objects no map and no children_ list refers to are dropped, as Python does.
file_refs(c) == {c.id_map[k] : k \in DOMAIN c.id_map}
    \cup UNION {{c.dir_file_map[d][n] : n \in DOMAIN c.dir_file_map[d]} : d \in DOMAIN c.dir_file_map}
kid_refs(c, as) == UNION {{c.dheap[a].children_[i].a :
                            i \in {j \in DOMAIN c.dheap[a].children_ : c.dheap[a].children_[j].k = "obj"}} : a \in as}
RECURSIVE folder_refs(_, _)
folder_refs(c, as) == IF kid_refs(c, as) \subseteq as THEN as
                      ELSE folder_refs(c, as \cup kid_refs(c, as))
folder_roots(c) == {c.dir_map[k] : k \in DOMAIN c.dir_map}
    \cup {c.path_dir_map[p] : p \in DOMAIN c.path_dir_map}
collect(c) == [c EXCEPT !.fheap = [a \in file_refs(c) |-> c.fheap[a]],
                        !.dheap = [a \in folder_refs(c, folder_roots(c)) |-> c.dheap[a]]]

\* ------------------------------------------------------------ initial load
\* the void_folder object: Folder(id="null", name="未分类")
void_folder == TreeFolder(NULL_ID, VOID_NAME, 0, <<>>)

RECURSIVE _loop_folders(_, _, _)
_loop_folders(c, kids, path) ==
    IF kids = <<>> THEN c
    ELSE LET folder == Head(kids)
             a == NewAddr(c.dheap)
             sub == path \o <<folder.name>>
             c1 == [c EXCEPT !.dheap = MapPut(@, a, Folder(folder.id, folder.name, 0, <<>>)),
                             !.dir_map = MapPut(@, folder.id, a),
                             !.path_dir_map = MapPut(@, sub, a)]
             c2 == IF folder.children_ # <<>>
                   THEN _loop_folders(c1, folder.children_, sub) ELSE c1
         IN  _loop_folders(c2, Tail(kids), path)

\* for folder_id in folders: dir_file_map.setdefault(folder_id, {})[name] = file
RECURSIVE put_in_folders(_, _, _, _)
put_in_folders(dfm, fids, n, a) ==
    IF fids = <<>> THEN dfm
    ELSE put_in_folders(SetDefaultPut(dfm, Head(fids), n, a), Tail(fids), n, a)

\* _load_file: a new File object decoded from images/<id>/metadata.json
_load_file(c, file_id) ==
    IF file_id \notin DOMAIN c.images THEN [c EXCEPT !.raised = "FileNotFoundError"]
    ELSE [c EXCEPT !.fheap = MapPut(@, NewAddr(c.fheap), c.images[file_id])]

\* the loop of _init_cache over images/, in the order iterdir() yields
RECURSIVE init_files(_, _)
init_files(c, order) ==
    IF order = <<>> THEN c
    ELSE LET a == NewAddr(c.fheap)
             c1 == _load_file(c, Head(order))
             image_meta == c1.fheap[a]
         IN  IF c1.raised # "none" THEN c1
             ELSE IF image_meta.isDeleted THEN init_files(c1, Tail(order))
             ELSE init_files(
                    [c1 EXCEPT !.id_map = MapPut(@, image_meta.id, a),
                               !.dir_file_map =
                                   IF image_meta.folders # <<>>
                                   THEN put_in_folders(@, image_meta.folders, image_meta.name, a)
                                   ELSE SetDefaultPut(@, NULL_ID, image_meta.name, a)],
                    Tail(order))

\* self.update_time = now(): the last statement of a load or of a pass, reached
\* only when nothing was raised before it
set_update_time_always(c, t) == [c EXCEPT !.update_time = t]

set_update_time(c, t) == IF c.raised # "none" THEN c ELSE [c EXCEPT !.update_time = t]

_init_cache(c, order, t) ==
    LET m == c.meta_json
        ra == NewAddr(c.dheap)
        kids == [i \in 1..Len(m.folders) |-> [k |-> "meta", id |-> m.folders[i].id]]
                  \o <<[k |-> "void"]>>
        c1 == [c EXCEPT !.meta = m,
                        !.dheap = MapPut(@, ra, Folder(ROOT_ID, <<>>, 0, kids)),
                        !.path_dir_map = MapPut(@, <<>>, ra)]
        c2 == _loop_folders(c1, m.folders \o <<void_folder>>, <<>>)
        c3 == init_files(c2, order)
    IN  set_update_time(c3, t)

\* the orders in which a set can be listed
Orders(S) == {o \in [1..Cardinality(S) -> S] : \A i, j \in DOMAIN o : i # j => o[i] # o[j]}

\* ------------------------------------------------------------ reconciliation
\* for old_folder in old_folders: dir_file_map.get(old_folder, {}).pop(name, None)
RECURSIVE pop_from_folders(_, _, _)
pop_from_folders(dfm, fids, n) ==
    IF fids = <<>> THEN dfm
    ELSE pop_from_folders(GetPop(dfm, Head(fids), n), Tail(fids), n)

\* the body of the loop of _update_cache for one entry k newer than the watermark
update_entry(c, k) ==
    LET a == NewAddr(c.fheap)
        c1 == _load_file(c, k)
        new_file == c1.fheap[a]
    IN  IF c1.raised # "none" THEN c1
        ELSE IF new_file.isDeleted
        THEN IF k \notin DOMAIN c1.id_map THEN [c1 EXCEPT !.raised = "KeyError"]
             ELSE [c1 EXCEPT !.dir_file_map =
                                 GetPop(@, IF new_file.folders # <<>>
                                           THEN new_file.folders[1] ELSE NULL_ID,
                                        c1.fheap[c1.id_map[k]].name),
                             !.id_map = MapDel(@, k)]
        ELSE IF k \notin DOMAIN c1.id_map THEN [c1 EXCEPT !.raised = "KeyError"]
        ELSE LET old == c1.fheap[c1.id_map[k]]
                 dfm == IF new_file.folders # old.folders
                        THEN put_in_folders(
                                 pop_from_folders(c1.dir_file_map, old.folders, old.name),
                                 new_file.folders, new_file.name, a)
                        ELSE c1.dir_file_map
             IN  [c1 EXCEPT !.dir_file_map = dfm, !.id_map = MapPut(@, k, a)]

\* if v > self.update_time
newer_or_same(v, watermark) == v >= watermark

newer(v, watermark) == v > watermark

\* for k, v in mtime.items(): if v > self.update_time: ...
RECURSIVE update_entries(_, _)
update_entries(c, keys) ==
    IF keys = <<>> \/ c.raised # "none" THEN c
    ELSE update_entries(
             IF newer(c.mtime_json.val[Head(keys)], c.update_time)
             THEN update_entry(c, Head(keys)) ELSE c,
             Tail(keys))

\* fault: a read of the store that fails in this pass ("none", "meta", "mtime")
_update_cache(c, order, t, fault) ==
    IF fault = "meta" THEN [c EXCEPT !.raised = "DecodeError"]
    ELSE IF c.meta_json.modificationTime > c.meta.modificationTime
    THEN _init_cache(c, order, t)
    ELSE IF c.mtime_json = NoFile THEN set_update_time(c, t)
    ELSE IF fault = "mtime" THEN [c EXCEPT !.raised = "DecodeError"]
    ELSE LET c1 == update_entries(c, c.mtime_json.keys)
         IN  set_update_time(c1, t)

\* ------------------------------------------------------------ lookups
None == 0                           \* no object: addresses start at 1

get_file(c, path) ==
    IF parent(path) \notin DOMAIN c.path_dir_map THEN None
    ELSE LET folder == c.dheap[c.path_dir_map[parent(path)]]
             files == Get2(c.dir_file_map, folder.id)
         IN  IF name_of(path) \in DOMAIN files THEN files[name_of(path)] ELSE None

get_folder(c, path) ==
    IF path \in DOMAIN c.path_dir_map THEN c.path_dir_map[path] ELSE None

\* ------------------------------------------------------------ store writes
\* _generate_id draws 13 random characters: any identifier, one in use included
IdPool == {"A2", "N1"}

\* write_bytes raises OSError when the store refuses the write (write_fails)
_save_file_metadata(c, a) ==
    IF c.write_fails THEN [c EXCEPT !.raised = "OSError: metadata.json"]
    ELSE [c EXCEPT !.images = MapPut(@, c.fheap[a].id, c.fheap[a])]

\* a mutation that leaves mtime.json alone
_update_mtime_skipped(c, file_id, t) == c

_update_mtime(c, file_id, t) ==
    LET mtime == IF c.mtime_json = NoFile THEN [keys |-> <<>>, val |-> EmptyMap]
                 ELSE c.mtime_json
    IN  [c EXCEPT !.mtime_json =
            [keys |-> IF file_id \in DOMAIN mtime.val THEN mtime.keys
                      ELSE Append(mtime.keys, file_id),
             val |-> MapPut(mtime.val, file_id, t)]]

\* self._save_file_metadata(file); self._update_mtime(file.id): the second call
\* is not reached when the first raises
save_and_stamp(c, a, t) ==
    LET c1 == _save_file_metadata(c, a)
    IN  IF c1.raised # "none" THEN c1 ELSE _update_mtime(c1, c.fheap[a].id, t)

\* ------------------------------------------------------------ cache edits
add_file_to_cache(c, a) ==
    LET file == c.fheap[a]
    IN  [c EXCEPT !.id_map = MapPut(@, file.id, a),
                  !.dir_file_map = IF file.folders # <<>>
                                   THEN put_in_folders(@, file.folders, file.name, a)
                                   ELSE SetDefaultPut(@, NULL_ID, file.name, a)]

\* for folder_id in folders: if folder_id in dir_file_map: dir_file_map[folder_id].pop(name, None)
remove_file_from_cache(c, file_id) ==
    IF file_id \notin DOMAIN c.id_map THEN c
    ELSE LET file == c.fheap[c.id_map[file_id]]
         IN  [c EXCEPT !.dir_file_map = IF file.folders # <<>>
                                        THEN pop_from_folders(@, file.folders, file.name)
                                        ELSE GetPop(@, NULL_ID, file.name),
                       !.id_map = MapDel(@, file_id)]

\* ------------------------------------------------------------ asset mutations
IMAGE_EXTENSIONS == {"jpg", "jpeg", "png", "gif", "bmp", "webp", "tiff", "tif", "ico",
                     "svg", "heic", "heif", "avif", "jfif", "pjpeg", "pjp"}

\* Path.touch(): an empty content file unless one exists
touch(c, key) == IF key \in DOMAIN c.content THEN c
                 ELSE [c EXCEPT !.content = MapPut(@, key, 0)]

create_file(c, path, new_id, t) ==
    LET parent_path == parent(path)
        file_name == stem(name_of(path))
        file_ext == IF suffix(name_of(path)) # "" THEN suffix(name_of(path)) ELSE "bin"
        parent_folder == get_folder(c, parent_path)
        folder_ids == IF parent_folder # None /\ c.dheap[parent_folder].id # NULL_ID
                      THEN <<c.dheap[parent_folder].id>> ELSE <<>>
        a == NewAddr(c.fheap)
        new_file == File(new_id, file_name, file_ext, 0, t, t, folder_ids, FALSE)
        c1 == [c EXCEPT !.fheap = MapPut(@, a, new_file)]
        c2 == save_and_stamp(c1, a, t)
        c3 == add_file_to_cache(c2, a)
    IN  IF c2.raised # "none" THEN c2
        ELSE IF file_ext \in IMAGE_EXTENSIONS THEN touch(c3, <<new_id, fullname(new_file)>>)
        ELSE c3

\* the size of a file after f.seek(offset); f.write(data) on a file of size old
written_size(old, offset, len) ==
    IF len = 0 THEN old ELSE IF offset + len > old THEN offset + len ELSE old

write_file(c, file_id, len, offset, t) ==
    IF file_id \notin DOMAIN c.id_map THEN c
    ELSE LET a == c.id_map[file_id]
             file == c.fheap[a]
             key == <<file_id, fullname(file)>>
             new_size == written_size(IF key \in DOMAIN c.content THEN c.content[key] ELSE 0,
                                      offset, len)
             c1 == [c EXCEPT !.content = MapPut(@, key, new_size),
                             !.fheap[a].size = new_size,
                             !.fheap[a].mtime = t,
                             !.fheap[a].modificationTime = t]
         IN  save_and_stamp(c1, a, t)

delete_file(c, path, t) ==
    LET a == get_file(c, path)
    IN  IF a = None THEN c
        ELSE LET c1 == [c EXCEPT !.fheap[a].isDeleted = TRUE,
                                 !.fheap[a].mtime = t,
                                 !.fheap[a].modificationTime = t]
                 c2 == save_and_stamp(c1, a, t)
             IN  IF c2.raised # "none" THEN c2
                 ELSE remove_file_from_cache(c2, c2.fheap[a].id)

\* old_file_path.rename(new_file_path), when the old content file exists
rename_content(c, id, old, new) ==
    IF <<id, old>> \in DOMAIN c.content
    THEN [c EXCEPT !.content = MapPut(MapDel(@, <<id, old>>), <<id, new>>, c.content[<<id, old>>])]
    ELSE c

rename_file(c, old_path, new_path, t) ==
    LET a == get_file(c, old_path)
    IN  IF a = None THEN c
        ELSE LET file == c.fheap[a]
                 new_name == stem(name_of(new_path))
                 new_ext == IF suffix(name_of(new_path)) # "" THEN suffix(name_of(new_path))
                            ELSE file.ext
                 new_parent == get_folder(c, parent(new_path))
                 new_folder_ids == IF new_parent # None /\ c.dheap[new_parent].id # NULL_ID
                                   THEN <<c.dheap[new_parent].id>> ELSE <<>>
                 c1 == rename_content(c, file.id, fullname(file), new_name \o <<new_ext>>)
                 c2 == remove_file_from_cache(c1, file.id)
                 c3 == [c2 EXCEPT !.fheap[a].name = new_name,
                                  !.fheap[a].ext = new_ext,
                                  !.fheap[a].folders = new_folder_ids,
                                  !.fheap[a].mtime = t,
                                  !.fheap[a].modificationTime = t]
                 c4 == save_and_stamp(c3, a, t)
             IN  IF c4.raised # "none" THEN c4 ELSE add_file_to_cache(c4, a)

\* times: None (0 here) or the mtime of the (atime, mtime) pair, in milliseconds
update_file_time(c, path, times, t) ==
    LET a == get_file(c, path)
    IN  IF a = None THEN c
        ELSE LET c1 == [c EXCEPT !.fheap[a].mtime = IF times # None THEN times ELSE @,
                                 !.fheap[a].modificationTime = t]
             IN  save_and_stamp(c1, a, t)

truncate_file(c, file_id, length, t) ==
    IF file_id \notin DOMAIN c.id_map THEN c
    ELSE LET a == c.id_map[file_id]
             file == c.fheap[a]
             c1 == [c EXCEPT !.content = MapPut(@, <<file_id, fullname(file)>>, length),
                             !.fheap[a].size = length,
                             !.fheap[a].mtime = t,
                             !.fheap[a].modificationTime = t]
         IN  save_and_stamp(c1, a, t)

\* ------------------------------------------------------------ folder tree
\* Python's order of the strings the model uses, and of names made of them
Alphabet == <<"a", "b", "bin", "d", "e", "png", "s", "txt", "unclassified">>
rank(x) == CHOOSE i \in DOMAIN Alphabet : Alphabet[i] = x
RECURSIVE name_le(_, _)
name_le(m, n) ==
    IF m = <<>> THEN TRUE
    ELSE IF n = <<>> THEN FALSE
    ELSE IF Head(m) = Head(n) THEN name_le(Tail(m), Tail(n))
    ELSE rank(Head(m)) < rank(Head(n))

\* sorted(folders, key=lambda f: f.name): stable
RECURSIVE insert_sorted(_, _)
insert_sorted(fs, f) ==
    IF fs = <<>> THEN <<f>>
    ELSE IF name_le(Head(fs).name, f.name) THEN <<Head(fs)>> \o insert_sorted(Tail(fs), f)
    ELSE <<f>> \o fs
RECURSIVE sorted(_)
sorted(fs) == IF fs = <<>> THEN <<>>
              ELSE insert_sorted(sorted(SubSeq(fs, 1, Len(fs) - 1)), fs[Len(fs)])

_save_library_metadata(c, t) ==
    LET m == [modificationTime |-> t, folders |-> sorted(c.meta.folders)]
    IN  [c EXCEPT !.meta = m, !.meta_json = m]

\* _remove_child_recursive over the children list kids of one folder, from the
\* i-th child on: [kids |-> the list afterwards, found |-> whether one was removed]
RECURSIVE remove_in_children(_, _, _)
remove_in_children(kids, i, folder_id) ==
    IF i > Len(kids) THEN [kids |-> kids, found |-> FALSE]
    ELSE IF kids[i].id = folder_id
    THEN [kids |-> SubSeq(kids, 1, i - 1) \o SubSeq(kids, i + 1, Len(kids)), found |-> TRUE]
    ELSE LET r == remove_in_children(kids[i].children_, 1, folder_id)
         IN  IF r.found
             THEN [kids |-> [kids EXCEPT ![i].children_ = r.kids], found |-> TRUE]
             ELSE remove_in_children(kids, i + 1, folder_id)

_remove_child_recursive(folder, folder_id) ==
    LET r == remove_in_children(folder.children_, 1, folder_id)
    IN  [folder |-> [folder EXCEPT !.children_ = r.kids], found |-> r.found]

\* for f in self.meta.folders: if self._remove_child_recursive(f, folder_id): break
RECURSIVE remove_from_top(_, _, _)
remove_from_top(fs, i, folder_id) ==
    IF i > Len(fs) THEN fs
    ELSE LET r == _remove_child_recursive(fs[i], folder_id)
         IN  IF r.found THEN [fs EXCEPT ![i] = r.folder]
             ELSE remove_from_top(fs, i + 1, folder_id)

_remove_child_from_parent(c, folder_id) ==
    [c EXCEPT !.meta.folders = remove_from_top(@, 1, folder_id)]

\* _update_folder_name_recursive on the i-th folder of the list fs and the ones after
\* it: the first folder with the identifier, in pre-order, gets the name
RECURSIVE rename_in_list(_, _, _, _, _)
rename_in_list(fs, i, folder_id, new_name, t) ==
    IF i > Len(fs) THEN [fs |-> fs, found |-> FALSE]
    ELSE IF fs[i].id = folder_id
    THEN [fs |-> [fs EXCEPT ![i].name = new_name, ![i].modificationTime = t], found |-> TRUE]
    ELSE LET r == rename_in_list(fs[i].children_, 1, folder_id, new_name, t)
         IN  IF r.found THEN [fs |-> [fs EXCEPT ![i].children_ = r.fs], found |-> TRUE]
             ELSE rename_in_list(fs, i + 1, folder_id, new_name, t)

_update_folder_name(c, folder_id, new_name, t) ==
    [c EXCEPT !.meta.folders = rename_in_list(@, 1, folder_id, new_name, t).fs]

add_folder_to_cache(c, a, parent_path) ==
    [c EXCEPT !.dir_map = MapPut(@, c.dheap[a].id, a),
              !.path_dir_map = MapPut(@, parent_path \o <<c.dheap[a].name>>, a)]

remove_folder_from_cache(c, folder_id) ==
    IF folder_id \notin DOMAIN c.dir_map THEN c
    ELSE [c EXCEPT !.path_dir_map = [p \in {q \in DOMAIN @ : c.dheap[@[q]].id # folder_id} |-> @[p]],
                   !.dir_map = MapDel(@, folder_id)]

\* ------------------------------------------------------------ folder mutations
create_folder(c, path, new_id, t) ==
    LET parent_path == parent(path)
        parent_folder == get_folder(c, parent_path)
        a == NewAddr(c.dheap)
        c1 == [c EXCEPT !.dheap = MapPut(
                   [@ EXCEPT ![parent_folder].children_ = Append(@, [k |-> "obj", a |-> a]),
                             ![parent_folder].modificationTime = t],
                   a, Folder(new_id, name_of(path), t, <<>>))]
    IN  IF parent_folder = None THEN [c EXCEPT !.raised = "ValueError"]
        ELSE add_folder_to_cache(_save_library_metadata(c1, t), a, parent_path)

\* if self.dir_file_map.get(folder.id)
has_files_unchecked(c, folder_id) == FALSE

has_files(c, folder_id) == DOMAIN Get2(c.dir_file_map, folder_id) # {}

delete_folder(c, path, t) ==
    LET folder == get_folder(c, path)
    IN  IF folder = None THEN [c EXCEPT !.raised = "OSError: Folder not found"]
        ELSE IF c.dheap[folder].children_ # <<>>
        THEN [c EXCEPT !.raised = "OSError: Directory not empty"]
        ELSE IF has_files(c, c.dheap[folder].id)
        THEN [c EXCEPT !.raised = "OSError: Directory not empty"]
        ELSE remove_folder_from_cache(
                 _save_library_metadata(_remove_child_from_parent(c, c.dheap[folder].id), t),
                 c.dheap[folder].id)

rename_folder(c, old_path, new_path, t) ==
    LET folder == get_folder(c, old_path)
        new_name == name_of(new_path)
    IN  IF folder = None THEN c
        ELSE LET c1 == _save_library_metadata(
                           _update_folder_name(c, c.dheap[folder].id, new_name, t), t)
             IN  [c1 EXCEPT !.dheap[folder].name = new_name,
                            !.dheap[folder].modificationTime = t,
                            !.path_dir_map = MapPut(MapDel(@, old_path), new_path, folder)]

\* ------------------------------------------------------------ actions
Result(op, arg, outcome) == [op |-> op, arg |-> arg, outcome |-> outcome]

\* the store and the engine's memory after a call
Commit(c) ==
    LET g == collect(c)
    IN  /\ meta_json' = g.meta_json
        /\ images' = g.images
        /\ mtime_json' = g.mtime_json
        /\ content' = g.content
        /\ meta' = g.meta
        /\ fheap' = g.fheap
        /\ dheap' = g.dheap
        /\ id_map' = g.id_map
        /\ dir_map' = g.dir_map
        /\ dir_file_map' = g.dir_file_map
        /\ path_dir_map' = g.path_dir_map
        /\ update_time' = g.update_time

Faults == {"none", "meta", "mtime"}

\* if current_time - self._last_check_time < 1000
throttled_reversed(current_time, last) == current_time - last > Throttle

throttled(current_time, last) == current_time - last < Throttle

NoRun == [t |-> -1, ok |-> FALSE]

\* no pass is in progress
NoPass == [index |-> NoFile, current_time |-> -1]

\* the listing orders that matter to a pass: all of them when it rebuilds the cache
ListingOrders ==
    IF meta_json.modificationTime > meta.modificationTime THEN Orders(DOMAIN images)
    ELSE {CHOOSE o \in Orders(DOMAIN images) : TRUE}

check_and_update_cache ==
    \E fault \in Faults, order \in ListingOrders :
        LET current_time == clock
        IN  IF throttled(current_time, last_check_time)
            THEN /\ fault = "none" /\ order = CHOOSE o \in ListingOrders : TRUE
                 /\ ret' = Result("check_and_update_cache", fault, "throttled")
                 /\ UNCHANGED <<clock, store_vars, cache_vars, update_time, last_check_time,
                                hist_vars, fuse_vars, in_pass>>
            ELSE LET c == _update_cache(World, order, clock, fault)
                 IN  /\ Commit(c)
                     /\ last_check_time' = IF c.raised = "none" THEN current_time
                                           ELSE last_check_time
                     /\ ret' = Result("check_and_update_cache", fault, c.raised)
                     /\ last_run' = [t |-> current_time, ok |-> c.raised = "none"]
                     /\ quiet' = IF c.raised # "none" THEN 0
                                 ELSE IF quiet = 0 THEN 1 ELSE 2
                     /\ UNCHANGED <<clock, ops, fuse_vars, in_pass>>

\* A pass taken in two steps.  BeginPass is check_and_update_cache up to the
\* read of mtime.json in _update_cache: the throttle test, the test of
\* metadata.json, the read of the change index.
BeginPass ==
    /\ in_pass = NoPass
    /\ ~throttled(clock, last_check_time)
    /\ meta_json.modificationTime <= meta.modificationTime
    /\ mtime_json # NoFile
    /\ in_pass' = [index |-> mtime_json, current_time |-> clock]
    /\ ret' = Result("check_and_update_cache", "none", "running")
    /\ UNCHANGED <<clock, store_vars, cache_vars, update_time, last_check_time, hist_vars,
                   fuse_vars>>

\* EndPass is the rest: the loop over the index that was read, which loads the
\* metadata of the entries as the store holds them now, and the two assignments
\* of update_time and _last_check_time.
EndPass ==
    /\ in_pass # NoPass
    /\ LET c == _update_cache([World EXCEPT !.mtime_json = in_pass.index],
                              CHOOSE o \in ListingOrders : TRUE, clock, "none")
       IN  /\ Commit([c EXCEPT !.mtime_json = mtime_json])
           /\ last_check_time' = IF c.raised = "none" THEN in_pass.current_time
                                 ELSE last_check_time
           /\ ret' = Result("check_and_update_cache", "none", c.raised)
           /\ last_run' = [t |-> in_pass.current_time, ok |-> c.raised = "none"]
           /\ quiet' = IF c.raised # "none" THEN 0
                       ELSE IF quiet = 0 THEN 1 ELSE 2
    /\ in_pass' = NoPass
    /\ UNCHANGED <<clock, ops, fuse_vars>>

Tick ==
    /\ clock + TickStep <= MaxClock
    /\ clock' = clock + TickStep
    /\ ret' = Result("tick", <<>>, "none")
    /\ UNCHANGED <<store_vars, cache_vars, update_time, last_check_time, hist_vars, fuse_vars, in_pass>>

\* ------------------------------------------------------------ inputs
D == <<"d">>
S == <<"s">>
E == <<"e">>
DirPaths == {<<>>, <<D>>, <<D, S>>, <<VOID_NAME>>}
FileNames == {<<"a">>, <<"b">>, <<"a", "txt">>}
FilePaths == {d \o <<n>> : d \in DirPaths, n \in FileNames}
NewDirPaths == {<<E>>, <<D, E>>, <<D, S, E>>, <<VOID_NAME, E>>, <<D, S>>}
AssetIds == {"A1", "A2"} \cup IdPool
WriteLens == {2}
TruncateLens == {1}
TouchTimes == {None, 7}

\* a call of the engine at the current clock, with the exception it ended in
Call(op, arg, c) ==
    /\ Commit(c)
    /\ ret' = Result(op, arg, c.raised)
    /\ ops' = ops + 1
    /\ quiet' = 0
    /\ UNCHANGED <<clock, last_check_time, last_run, fuse_vars, in_pass>>

CreateFile ==
    \E path \in FilePaths, new_id \in IdPool :
        /\ ops < MaxOps
        /\ Call("create_file",
                [path |-> path, new_id |-> new_id, existed |-> get_file(World, path) # None],
                create_file(World, path, new_id, clock))

WriteFile ==
    \E file_id \in AssetIds, len \in WriteLens :
        /\ ops < MaxOps
        /\ Call("write_file", [file_id |-> file_id, len |-> len, offset |-> 0],
                write_file(World, file_id, len, 0, clock))

DeleteFile ==
    \E path \in FilePaths :
        /\ ops < MaxOps
        /\ Call("delete_file", [path |-> path, file |-> get_file(World, path)],
                delete_file(World, path, clock))

RenameFile ==
    \E old_path \in FilePaths, new_path \in FilePaths :
        /\ ops < MaxOps
        /\ get_file(World, old_path) # None
        /\ Call("rename_file", [old_path |-> old_path, new_path |-> new_path],
                rename_file(World, old_path, new_path, clock))

UpdateFileTime ==
    \E path \in FilePaths, times \in TouchTimes :
        /\ ops < MaxOps
        /\ get_file(World, path) # None
        /\ Call("update_file_time", [path |-> path, times |-> times],
                update_file_time(World, path, times, clock))

TruncateFile ==
    \E file_id \in AssetIds, length \in TruncateLens :
        /\ ops < MaxOps
        /\ Call("truncate_file", [file_id |-> file_id, length |-> length],
                truncate_file(World, file_id, length, clock))

CreateFolder ==
    \E path \in NewDirPaths, new_id \in IdPool :
        /\ ops < MaxOps
        /\ Call("create_folder", [path |-> path, new_id |-> new_id],
                create_folder(World, path, new_id, clock))

DeleteFolder ==
    \E path \in DirPaths \cup NewDirPaths :
        /\ ops < MaxOps
        /\ Call("delete_folder", [path |-> path, folder |-> get_folder(World, path)],
                delete_folder(World, path, clock))

RenameFolder ==
    \E old_path \in (DirPaths \cup NewDirPaths) \ {<<>>}, new_path \in NewDirPaths :
        /\ ops < MaxOps
        /\ get_folder(World, old_path) # None
        /\ Call("rename_folder", [old_path |-> old_path, new_path |-> new_path],
                rename_folder(World, old_path, new_path, clock))

\* ------------------------------------------------------------ external writer
\* The asset-management application edits the store behind the engine: it
\* rewrites one asset's metadata and stamps the asset in mtime.json, or rewrites
\* the folder tree and stamps metadata.json.
FolderLists == {<<>>, <<"F1">>, <<"F2">>, <<"F1", "F2">>}
StoreNames == {<<"a">>, <<"b">>}

ExtWrite(id, rec) ==
    LET c == _update_mtime([World EXCEPT !.images = MapPut(@, id, rec)], id, clock)
    IN  /\ ops < MaxExt
        /\ images' = c.images
        /\ mtime_json' = c.mtime_json
        /\ ret' = Result("external", id, "none")
        /\ ops' = ops + 1
        /\ quiet' = 0
        /\ UNCHANGED <<clock, meta_json, content, cache_vars, update_time, last_check_time,
                       last_run, fuse_vars, in_pass>>

ExtSetFolders ==
    \E id \in DOMAIN images, fs \in FolderLists :
        /\ ~images[id].isDeleted /\ images[id].folders # fs
        /\ ExtWrite(id, [images[id] EXCEPT !.folders = fs, !.modificationTime = clock])

ExtRename ==
    \E id \in DOMAIN images, n \in StoreNames :
        /\ ~images[id].isDeleted /\ images[id].name # n
        /\ ExtWrite(id, [images[id] EXCEPT !.name = n, !.modificationTime = clock])

ExtTrash ==
    \E id \in DOMAIN images :
        /\ ~images[id].isDeleted
        /\ ExtWrite(id, [images[id] EXCEPT !.isDeleted = TRUE, !.modificationTime = clock])

ExtCreate ==
    \E id \in AssetIds \ DOMAIN images, fs \in FolderLists :
        /\ id \notin DOMAIN images
        /\ ExtWrite(id, File(id, <<"b">>, "png", 0, clock, clock, fs, FALSE))

ExtRenameFolder ==
    \E n \in {S, E} :
        /\ ops < MaxExt
        /\ meta_json.folders # <<>> /\ meta_json.folders[1].children_ # <<>>
        /\ meta_json.folders[1].children_[1].name # n
        /\ meta_json' = [modificationTime |-> clock,
                         folders |-> [meta_json.folders EXCEPT
                                        ![1].children_[1].name = n,
                                        ![1].children_[1].modificationTime = clock]]
        /\ ret' = Result("external", "metadata.json", "none")
        /\ ops' = ops + 1
        /\ quiet' = 0
        /\ UNCHANGED <<clock, images, mtime_json, content, cache_vars, update_time,
                       last_check_time, last_run, fuse_vars, in_pass>>

\* the external application deletes the sub-folder of the first top-level folder
ExtRemoveFolder ==
    /\ ops < MaxExt
    /\ meta_json.folders # <<>> /\ meta_json.folders[1].children_ # <<>>
    /\ meta_json' = [modificationTime |-> clock,
                     folders |-> [meta_json.folders EXCEPT
                                    ![1].children_ = Tail(@),
                                    ![1].modificationTime = clock]]
    /\ ret' = Result("external", "metadata.json", "none")
    /\ ops' = ops + 1
    /\ quiet' = 0
    /\ UNCHANGED <<clock, images, mtime_json, content, cache_vars, update_time,
                   last_check_time, last_run, fuse_vars, in_pass>>

\* the external application removes an asset's directory for good and stamps
\* the asset in mtime.json: its metadata.json can no longer be read
ExtPurge ==
    \E id \in DOMAIN images :
        LET c == _update_mtime([World EXCEPT !.images = MapDel(@, id)], id, clock)
        IN  /\ images' = c.images
            /\ mtime_json' = c.mtime_json
            /\ ret' = Result("external", id, "none")
            /\ quiet' = 0
            /\ UNCHANGED <<clock, meta_json, content, cache_vars, update_time,
                           last_check_time, last_run, ops, fuse_vars, in_pass>>

\* ------------------------------------------------------------ projection cache
\* The inode-indexed maps the request adapter reads (inode_map, children_map,
\* folder_parent_map).  An inode is derived from the identifier by an injective
\* transform, here the identity; the root and the unclassified folder have
\* reserved inodes.
ROOT_INODE == ROOT_ID
NULL_INODE == NULL_ID
inode_for(id) == id

\* the folders of a persisted tree, each with the inode of its parent
RECURSIVE tree_nodes(_, _)
tree_nodes(fs, p) ==
    IF fs = <<>> THEN {}
    ELSE {[id |-> Head(fs).id, name |-> Head(fs).name,
           modificationTime |-> Head(fs).modificationTime, parent |-> p]}
         \cup tree_nodes(Head(fs).children_, inode_for(Head(fs).id))
         \cup tree_nodes(Tail(fs), p)

\* isinstance(obj, Folder)
is_folder(obj) == "children_" \in DOMAIN obj

\* the assets of the store that are not soft-deleted
active_assets(im) == {a \in DOMAIN im : ~im[a].isDeleted}

\* the asset is filed under the folder of inode d (under unclassified when its
\* folder set is empty)
filed_under(f, d) ==
    IF f.folders = <<>> THEN d = NULL_INODE
    ELSE \E i \in DOMAIN f.folders : inode_for(f.folders[i]) = d

\* the name of a node in its parent's children map: the display name of a
\* folder, name.ext of an asset (the bare name when the extension is empty)
entry_name(obj) ==
    IF is_folder(obj) \/ obj.ext = "" THEN obj.name ELSE fullname(obj)

\* the initial full load of the three maps from the store
load_inode_map(mj, im) ==
    LET nodes == tree_nodes(mj.folders, ROOT_INODE)
    IN  [i \in {inode_for(n.id) : n \in nodes} \cup {NULL_INODE}
               \cup {inode_for(a) : a \in active_assets(im)} |->
            IF i = NULL_INODE THEN void_folder
            ELSE IF i \in DOMAIN im THEN im[i]
            ELSE LET n == CHOOSE n \in nodes : inode_for(n.id) = i
                 IN  TreeFolder(n.id, n.name, n.modificationTime, <<>>)]

load_folder_parent_map(mj) ==
    LET nodes == tree_nodes(mj.folders, ROOT_INODE)
    IN  [i \in {inode_for(n.id) : n \in nodes} \cup {NULL_INODE} |->
            IF i = NULL_INODE THEN ROOT_INODE
            ELSE (CHOOSE n \in nodes : inode_for(n.id) = i).parent]

load_children_map(mj, im) ==
    LET imap == load_inode_map(mj, im)
        pmap == load_folder_parent_map(mj)
        kids(d) == {i \in DOMAIN imap :
                      IF is_folder(imap[i]) THEN pmap[i] = d ELSE filed_under(imap[i], d)}
    IN  [d \in {ROOT_INODE} \cup DOMAIN pmap |->
            [n \in {entry_name(imap[i]) : i \in kids(d)} |->
                CHOOSE i \in kids(d) : entry_name(imap[i]) = n]]

\* ------------------------------------------------------------ node operations
\* The operations of the engine that the request adapter calls by inode
\* (new_file, new_folder, delete_node, rename_node, write_file), as section 4.4
\* of the design describes them.  They work on the projection cache and the
\* store as one value; raised names the failure that ended the operation.
Projection ==
    [inode_map |-> inode_map, children_map |-> children_map,
     folder_parent_map |-> folder_parent_map, meta_json |-> meta_json,
     images |-> images, mtime_json |-> mtime_json, content |-> content,
     raised |-> "none"]

\* identifiers the allocator can hand out
NewIds == {"N1", "N2"}
new_identifier(p) ==
    IF "N1" \notin DOMAIN p.inode_map \cup DOMAIN p.images THEN "N1" ELSE "N2"

\* the persisted tree without the folder id, with a node appended to the child
\* list of a folder, and the node of a folder
RECURSIVE tree_remove(_, _)
tree_remove(fs, id) ==
    IF fs = <<>> THEN <<>>
    ELSE IF Head(fs).id = id THEN tree_remove(Tail(fs), id)
    ELSE <<[Head(fs) EXCEPT !.children_ = tree_remove(@, id)]>> \o tree_remove(Tail(fs), id)

RECURSIVE tree_insert(_, _, _)
tree_insert(fs, parent_id, node) ==
    IF parent_id = ROOT_ID THEN Append(fs, node)
    ELSE [i \in DOMAIN fs |->
            IF fs[i].id = parent_id THEN [fs[i] EXCEPT !.children_ = Append(@, node)]
            ELSE [fs[i] EXCEPT !.children_ = tree_insert(@, parent_id, node)]]

RECURSIVE tree_find(_, _)
tree_find(fs, id) ==
    IF fs = <<>> THEN <<>>
    ELSE IF Head(fs).id = id THEN <<Head(fs)>>
    ELSE tree_find(Head(fs).children_, id) \o tree_find(Tail(fs), id)

\* the children maps without any entry for inode i
unlink_entries(cm, i) ==
    [d \in DOMAIN cm |-> [n \in {m \in DOMAIN cm[d] : cm[d][m] # i} |-> cm[d][n]]]

\* the children maps with the asset entered under every folder it is filed under
RECURSIVE link_asset(_, _, _)
link_asset(cm, f, ds) ==
    IF ds = {} THEN cm
    ELSE LET d == CHOOSE x \in ds : TRUE
         IN  link_asset(IF filed_under(f, d)
                        THEN [cm EXCEPT ![d] = MapPut(@, entry_name(f), inode_for(f.id))]
                        ELSE cm, f, ds \ {d})

\* the folder inodes from i up to the root
RECURSIVE ancestors(_, _)
ancestors(pm, i) ==
    IF i \notin DOMAIN pm THEN {i} ELSE {i} \cup ancestors(pm, pm[i])

new_file(p, parent_inode, base_name, ext, t) ==
    LET new_id == new_identifier(p)
        f == File(new_id, base_name, ext, 0, t, t,
                  IF parent_inode = NULL_INODE THEN <<>> ELSE <<parent_inode>>, FALSE)
    IN  IF \/ parent_inode \notin DOMAIN p.children_map
           \/ entry_name(f) \in DOMAIN p.children_map[parent_inode]
        THEN [p EXCEPT !.raised = "refused"]
        ELSE _update_mtime(
                 [p EXCEPT !.images = MapPut(@, new_id, f),
                           !.content = MapPut(@, <<new_id, fullname(f)>>, 0),
                           !.inode_map = MapPut(@, inode_for(new_id), f),
                           !.children_map[parent_inode] =
                               MapPut(@, entry_name(f), inode_for(new_id))],
                 new_id, t)

new_folder(p, parent_inode, name, t) ==
    LET new_id == new_identifier(p)
        node == TreeFolder(new_id, name, t, <<>>)
    IN  IF \/ parent_inode \notin DOMAIN p.children_map
           \/ parent_inode = NULL_INODE
           \/ name \in DOMAIN p.children_map[parent_inode]
        THEN [p EXCEPT !.raised = "refused"]
        ELSE [p EXCEPT !.meta_json = [modificationTime |-> t,
                                      folders |-> tree_insert(@.folders, parent_inode, node)],
                       !.inode_map = MapPut(@, inode_for(new_id), node),
                       !.children_map =
                           MapPut([@ EXCEPT ![parent_inode] =
                                               MapPut(@, name, inode_for(new_id))],
                                  inode_for(new_id), EmptyMap),
                       !.folder_parent_map = MapPut(@, inode_for(new_id), parent_inode)]

delete_node(p, inode, t) ==
    IF inode \notin DOMAIN p.inode_map THEN [p EXCEPT !.raised = "ENOENT"]
    ELSE IF inode = NULL_INODE THEN [p EXCEPT !.raised = "EINVAL"]
    ELSE IF is_folder(p.inode_map[inode])
    THEN IF DOMAIN p.children_map[inode] # {} THEN [p EXCEPT !.raised = "ENOTEMPTY"]
         ELSE [p EXCEPT !.meta_json = [modificationTime |-> t,
                                       folders |-> tree_remove(@.folders, inode)],
                        !.inode_map = MapDel(@, inode),
                        !.children_map = MapDel(unlink_entries(@, inode), inode),
                        !.folder_parent_map = MapDel(@, inode)]
    ELSE _update_mtime(
             [p EXCEPT !.images[inode] = [@ EXCEPT !.isDeleted = TRUE, !.mtime = t,
                                                   !.modificationTime = t],
                       !.inode_map = MapDel(@, inode),
                       !.children_map = unlink_entries(@, inode)],
             inode, t)

rename_node(p, old_name, new_name, new_parent, old_parent, t) ==
    IF \/ old_parent \notin DOMAIN p.children_map
       \/ old_name \notin DOMAIN p.children_map[old_parent]
    THEN [p EXCEPT !.raised = "ENOENT"]
    ELSE LET i == p.children_map[old_parent][old_name]
             obj == p.inode_map[i]
         IN  IF new_parent \notin DOMAIN p.children_map THEN [p EXCEPT !.raised = "EINVAL"]
             ELSE IF new_name \in DOMAIN p.children_map[new_parent]
             THEN [p EXCEPT !.raised = "EEXIST"]
             ELSE IF is_folder(obj)
             THEN IF \/ i = NULL_INODE \/ new_parent = NULL_INODE
                     \/ i \in ancestors(p.folder_parent_map, new_parent)
                  THEN [p EXCEPT !.raised = "EINVAL"]
                  ELSE LET node == [tree_find(p.meta_json.folders, i)[1] EXCEPT
                                        !.name = new_name, !.modificationTime = t]
                       IN  [p EXCEPT
                              !.meta_json =
                                  [modificationTime |-> t,
                                   folders |-> tree_insert(tree_remove(@.folders, i),
                                                           new_parent, node)],
                              !.inode_map[i] = [@ EXCEPT !.name = new_name,
                                                         !.modificationTime = t],
                              !.children_map =
                                  [unlink_entries(@, i) EXCEPT ![new_parent] =
                                       MapPut(unlink_entries(p.children_map, i)[new_parent],
                                              new_name, i)],
                              !.folder_parent_map[i] = new_parent]
             ELSE LET f == [obj EXCEPT
                              !.name = stem(new_name),
                              !.ext = suffix(new_name),
                              !.folders =
                                  IF new_parent = old_parent THEN @
                                  ELSE IF new_parent = NULL_INODE
                                  THEN SelectSeq(@, LAMBDA x : x # old_parent)
                                  ELSE SelectSeq(@, LAMBDA x : x # old_parent /\ x # new_parent)
                                           \o <<new_parent>>,
                              !.mtime = t, !.modificationTime = t]
                  IN  _update_mtime(
                          [p EXCEPT !.images[i] = f,
                                    !.inode_map[i] = f,
                                    !.children_map =
                                        link_asset(unlink_entries(@, i), f, DOMAIN @)],
                          i, t)

\* write_file(inode, buf): the content is replaced by buf
inode_write_file(p, inode, len, t) ==
    IF inode \notin DOMAIN p.inode_map \/ is_folder(p.inode_map[inode])
    THEN [p EXCEPT !.raised = "ENOENT"]
    ELSE LET f == [p.inode_map[inode] EXCEPT !.size = len, !.mtime = t,
                                             !.modificationTime = t]
         IN  _update_mtime([p EXCEPT !.images[inode] = f, !.inode_map[inode] = f,
                                     !.content = MapPut(@, <<inode, fullname(f)>>, len)],
                           inode, t)

\* read_image(obj): the content bytes of the asset, here their number
read_image(p, obj) ==
    IF <<obj.id, fullname(obj)>> \in DOMAIN p.content
    THEN p.content[<<obj.id, fullname(obj)>>] ELSE 0

\* ------------------------------------------------------------ request adapter
\* EagleLibrary of fuse_operations.py.  A reply is an errno name or the value
\* the handler returns.
DOT == <<".">>
DOTDOT == <<"..">>
RENAME_NOREPLACE == 1
RENAME_EXCHANGE == 2

\* EagleLibrary._get_parent_inode
parent_inode_of(p, inode) ==
    IF inode = ROOT_INODE \/ inode = NULL_INODE THEN ROOT_INODE
    ELSE IF inode \in DOMAIN p.folder_parent_map THEN p.folder_parent_map[inode]
    ELSE IF /\ inode \in DOMAIN p.inode_map
            /\ ~is_folder(p.inode_map[inode])
            /\ p.inode_map[inode].folders # <<>>
    THEN IF inode_for(p.inode_map[inode].folders[1]) \in DOMAIN p.inode_map
         THEN inode_for(p.inode_map[inode].folders[1]) ELSE ROOT_INODE
    ELSE ROOT_INODE

\* the number of entries of children_map[inode] that are folders of inode_map
subdir_count(p, inode) ==
    Cardinality({n \in DOMAIN Get2(p.children_map, inode) :
                   /\ p.children_map[inode][n] \in DOMAIN p.inode_map
                   /\ is_folder(p.inode_map[p.children_map[inode][n]])})

\* EagleLibrary.getattr after its update_cache call
getattr(p, inode) ==
    IF inode = ROOT_INODE
    THEN [st_ino |-> ROOT_INODE, st_mode |-> "S_IFDIR", st_nlink |-> 2, st_size |-> 4096,
          st_mtime |-> p.meta_json.modificationTime]
    ELSE IF inode \notin DOMAIN p.inode_map THEN "ENOENT"
    ELSE LET obj == p.inode_map[inode]
         IN  IF is_folder(obj)
             THEN [st_ino |-> inode, st_mode |-> "S_IFDIR",
                   st_nlink |-> 2 + subdir_count(p, inode), st_size |-> 4096,
                   st_mtime |-> obj.modificationTime]
             ELSE [st_ino |-> inode, st_mode |-> "S_IFREG", st_nlink |-> 1,
                   st_size |-> obj.size, st_mtime |-> obj.mtime]

\* the reply with st_ino = 0 that lookup returns for an entry that is not there
negative_entry == [st_ino |-> 0, generation |-> 0, entry_timeout |-> 300, attr_timeout |-> 300]

\* EagleLibrary.lookup after its update_cache call
lookup(p, parent_inode, name) ==
    IF name = DOT THEN getattr(p, parent_inode)
    ELSE IF name = DOTDOT THEN getattr(p, parent_inode_of(p, parent_inode))
    ELSE IF parent_inode \notin DOMAIN p.children_map THEN negative_entry
    ELSE IF name \notin DOMAIN p.children_map[parent_inode] THEN negative_entry
    ELSE getattr(p, p.children_map[parent_inode][name])

\* self.src.update_cache(): the throttle check of the synchronization engine.
\* The engine is the only writer of the store here, so a pass that executes
\* finds the cache current and advances the watermark.
update_cache ==
    IF throttled(clock, last_check_time)
    THEN UNCHANGED <<update_time, last_check_time, last_run>>
    ELSE /\ update_time' = clock
         /\ last_check_time' = clock
         /\ last_run' = [t |-> clock, ok |-> TRUE]

\* a handler that does not call update_cache
no_update_cache == UNCHANGED <<update_time, last_check_time, last_run>>

\* the state after a request: the projection and the store as the handler left
\* them, the handles, and the reply
Reply(op, arg, p, files, next, out) ==
    /\ inode_map' = p.inode_map
    /\ children_map' = p.children_map
    /\ folder_parent_map' = p.folder_parent_map
    /\ meta_json' = p.meta_json
    /\ images' = p.images
    /\ mtime_json' = p.mtime_json
    /\ content' = p.content
    /\ _open_files' = files
    /\ _next_fh' = next
    /\ in_pass' = in_pass
    /\ ret' = Result(op, arg, out)
    /\ ops' = ops + 1
    /\ quiet' = 0
    /\ UNCHANGED <<clock, cache_vars>>

\* a request that changes neither the projection nor the handles
Query(op, arg, out) == Reply(op, arg, Projection, _open_files, _next_fh, out)

\* inputs of the requests
Inodes == {ROOT_INODE, "F1", "A1", "X"}
Parents == {ROOT_INODE, "F1"}
EntryNames == {<<"d">>, <<"s">>, <<"a", "png">>, <<"e">>}
Handles == {1, 2}
BufLens == {2}
RenameFlags == {0, RENAME_NOREPLACE, RENAME_EXCHANGE}

FuseLookup ==
    \E parent_inode \in Inodes, name \in EntryNames \cup {DOTDOT} :
        /\ ops < MaxOps
        /\ update_cache
        /\ Query("lookup", [parent_inode |-> parent_inode, name |-> name],
                 lookup(Projection, parent_inode, name))

FuseGetattr ==
    \E inode \in Inodes :
        /\ ops < MaxOps
        /\ update_cache
        /\ Query("getattr", [inode |-> inode], getattr(Projection, inode))

FuseOpendir ==
    \E inode \in Inodes :
        /\ ops < MaxOps
        /\ update_cache
        /\ IF inode # ROOT_INODE /\ inode \notin DOMAIN inode_map
           THEN Query("opendir", [inode |-> inode], "ENOENT")
           ELSE Reply("opendir", [inode |-> inode], Projection,
                      MapPut(_open_files, _next_fh, <<inode, 0>>), _next_fh + 1, _next_fh)

\* the names readdir replies with, from start_id = 0
readdir(p, inode) ==
    {DOT, DOTDOT} \cup {n \in DOMAIN Get2(p.children_map, inode) :
                          p.children_map[inode][n] \in DOMAIN p.inode_map}

FuseReaddir ==
    \E fh \in Handles :
        /\ ops < MaxOps
        /\ update_cache
        /\ Query("readdir", [fh |-> fh],
                 IF fh \notin DOMAIN _open_files THEN "EBADF"
                 ELSE IF _open_files[fh][2] # 0 THEN "EBADF"
                 ELSE readdir(Projection, _open_files[fh][1]))

FuseOpen ==
    \E inode \in Inodes :
        /\ ops < MaxOps
        /\ update_cache
        /\ IF inode \notin DOMAIN inode_map THEN Query("open", [inode |-> inode], "ENOENT")
           ELSE IF is_folder(inode_map[inode]) THEN Query("open", [inode |-> inode], "EISDIR")
           ELSE Reply("open", [inode |-> inode], Projection,
                      MapPut(_open_files, _next_fh, <<inode, 1>>), _next_fh + 1, _next_fh)

\* the failure of read and write on a handle, "none" when the handle is good
bad_handle(fh) ==
    IF fh \notin DOMAIN _open_files THEN "EBADF"
    ELSE IF _open_files[fh][2] # 1 THEN "EBADF"
    ELSE IF _open_files[fh][1] \notin DOMAIN inode_map THEN "EBADF"
    ELSE IF is_folder(inode_map[_open_files[fh][1]]) THEN "EISDIR"
    ELSE "none"

FuseRead ==
    \E fh \in Handles :
        /\ ops < MaxOps
        /\ no_update_cache
        /\ Query("read", [fh |-> fh, off |-> 0],
                 IF bad_handle(fh) # "none" THEN bad_handle(fh)
                 ELSE read_image(Projection, inode_map[_open_files[fh][1]]))

FuseWrite ==
    \E fh \in Handles, len \in BufLens :
        /\ ops < MaxOps
        /\ no_update_cache
        /\ IF bad_handle(fh) # "none"
           THEN Query("write", [fh |-> fh, len |-> len], bad_handle(fh))
           ELSE Reply("write", [fh |-> fh, len |-> len],
                      inode_write_file(Projection, _open_files[fh][1], len, clock),
                      _open_files, _next_fh, len)

FuseCreate ==
    \E parent_inode \in Parents, name \in EntryNames :
        LET arg == [parent_inode |-> parent_inode, name |-> name]
            p == new_file(Projection, parent_inode, stem(name), suffix(name), clock)
        IN  /\ ops < MaxOps
            /\ update_cache
            /\ IF name \in DOMAIN Get2(children_map, parent_inode)
               THEN Query("create", arg, "EEXIST")
               ELSE IF p.raised # "none" THEN Query("create", arg, "EIO")
               ELSE IF name \notin DOMAIN Get2(p.children_map, parent_inode)
               THEN Reply("create", arg, p, _open_files, _next_fh, "EIO")
               ELSE Reply("create", arg, p,
                          MapPut(_open_files, _next_fh,
                                 <<p.children_map[parent_inode][name], 1>>),
                          _next_fh + 1, getattr(p, p.children_map[parent_inode][name]))

FuseMkdir ==
    \E parent_inode \in Parents, name \in EntryNames :
        LET arg == [parent_inode |-> parent_inode, name |-> name]
            p == new_folder(Projection, parent_inode, name, clock)
        IN  /\ ops < MaxOps
            /\ update_cache
            /\ IF p.raised # "none" THEN Query("mkdir", arg, "EEXIST")
               ELSE IF name \notin DOMAIN Get2(p.children_map, parent_inode)
               THEN Reply("mkdir", arg, p, _open_files, _next_fh, "EIO")
               ELSE Reply("mkdir", arg, p, _open_files, _next_fh,
                          getattr(p, p.children_map[parent_inode][name]))

\* the outcome of a node operation the handler does not catch
raised_or(p, out) == IF p.raised # "none" THEN p.raised ELSE out

FuseRmdir ==
    \E parent_inode \in Parents, name \in EntryNames :
        LET arg == [parent_inode |-> parent_inode, name |-> name]
            children == Get2(children_map, parent_inode)
        IN  /\ ops < MaxOps
            /\ update_cache
            /\ IF name \notin DOMAIN children THEN Query("rmdir", arg, "ENOENT")
               ELSE IF DOMAIN Get2(children_map, children[name]) # {}
               THEN Query("rmdir", arg, "ENOTEMPTY")
               ELSE LET p == delete_node(Projection, children[name], clock)
                    IN  Reply("rmdir", arg, p, _open_files, _next_fh, raised_or(p, "none"))

FuseUnlink ==
    \E parent_inode \in Parents, name \in EntryNames :
        LET arg == [parent_inode |-> parent_inode, name |-> name]
            children == Get2(children_map, parent_inode)
        IN  /\ ops < MaxOps
            /\ update_cache
            /\ IF name \notin DOMAIN children THEN Query("unlink", arg, "ENOENT")
               ELSE IF children[name] \notin DOMAIN inode_map
               THEN Query("unlink", arg, "ENOENT")
               ELSE IF is_folder(inode_map[children[name]])
               THEN Query("unlink", arg, "EISDIR")
               ELSE LET p == delete_node(Projection, children[name], clock)
                    IN  Reply("unlink", arg, p, _open_files, _next_fh, raised_or(p, "none"))

\* flags & 1, flags & 2
noreplace(flags) == flags % 2 = 1
exchange(flags) == (flags \div 2) % 2 = 1

\* EagleLibrary.rename after its update_cache call: the projection it leaves
\* (raised names the errno or the failure of a node operation)
rename(p, parent_inode_old, name_old, parent_inode_new, name_new, flags, t) ==
    LET old_children == Get2(p.children_map, parent_inode_old)
        new_children == Get2(p.children_map, parent_inode_new)
    IN  IF name_old \notin DOMAIN old_children THEN [p EXCEPT !.raised = "ENOENT"]
        ELSE IF name_new \in DOMAIN new_children /\ noreplace(flags)
        THEN [p EXCEPT !.raised = "EEXIST"]
        ELSE IF name_new \in DOMAIN new_children /\ exchange(flags)
        THEN [p EXCEPT !.raised = "ENOSYS"]
        ELSE LET p1 == IF name_new \in DOMAIN new_children
                       THEN delete_node(p, new_children[name_new], t) ELSE p
             IN  IF p1.raised # "none" THEN p1
                 ELSE rename_node(p1, name_old, name_new, parent_inode_new,
                                  parent_inode_old, t)

FuseRename ==
    \E parent_inode_old \in Parents, name_old \in EntryNames,
       parent_inode_new \in Parents, name_new \in EntryNames, flags \in RenameFlags :
        LET p == rename(Projection, parent_inode_old, name_old, parent_inode_new, name_new,
                        flags, clock)
        IN  /\ ops < MaxOps
            /\ name_old \in DOMAIN Get2(children_map, parent_inode_old)
            /\ update_cache
            /\ Reply("rename",
                     [parent_inode_old |-> parent_inode_old, name_old |-> name_old,
                      parent_inode_new |-> parent_inode_new, name_new |-> name_new,
                      flags |-> flags],
                     [p EXCEPT !.raised = "none"], _open_files, _next_fh, p.raised)

\* ------------------------------------------------------------ initial states
\* The library at mount: folder "d" (F1) holding folder "s" (F2), asset A1
\* "a.png" and possibly asset A2; every timestamp is older than the mount.
InitTree == <<TreeFolder("F1", <<"d">>, 0, <<TreeFolder("F2", <<"s">>, 0, <<>>)>>)>>
InitA1 == {File("A1", <<"a">>, "png", 0, 0, 0, fs, FALSE) : fs \in {<<>>, <<"F1">>, <<"F1", "F2">>}}
InitA2 == {File("A2", n, "txt", 0, 0, 0, <<"F1">>, FALSE) : n \in {<<"a">>, <<"b">>}}
InitImages == {[k \in {"A1"} |-> a1] : a1 \in InitA1}
    \cup {[k \in {"A1", "A2"} |-> IF k = "A1" THEN a1 ELSE a2] : a1 \in InitA1, a2 \in InitA2}
\* __init__: the empty maps, over a store
Fresh(mj, im, mt, ct) ==
    [meta_json |-> mj, images |-> im, mtime_json |-> mt, content |-> ct,
     meta |-> [modificationTime |-> 0, folders |-> <<>>], fheap |-> EmptyMap,
     dheap |-> EmptyMap, id_map |-> EmptyMap, dir_map |-> EmptyMap,
     dir_file_map |-> EmptyMap, path_dir_map |-> EmptyMap, update_time |-> 0,
     raised |-> "none", write_fails |-> FALSE]

Init ==
    \E im \in InitImages :
      \E order \in Orders(DOMAIN im) :
        /\ clock = T0
        /\ meta_json = [modificationTime |-> 0, folders |-> InitTree]
        /\ images = im
        /\ mtime_json = [keys |-> order, val |-> [k \in DOMAIN im |-> 0]]
        /\ content = [k \in {<<i, fullname(im[i])>> : i \in DOMAIN im} |-> 0]
        /\ LET g == collect(_init_cache(Fresh(meta_json, images, mtime_json, content),
                                         order, clock))
           IN  /\ meta = g.meta
               /\ fheap = g.fheap
               /\ dheap = g.dheap
               /\ id_map = g.id_map
               /\ dir_map = g.dir_map
               /\ dir_file_map = g.dir_file_map
               /\ path_dir_map = g.path_dir_map
               /\ update_time = g.update_time
        /\ last_check_time = 0
        /\ ret = Result("__init__", <<>>, "none")
        /\ ops = 0
        /\ last_run = NoRun
        /\ quiet = 0
        /\ inode_map = load_inode_map(meta_json, images)
        /\ children_map = load_children_map(meta_json, images)
        /\ folder_parent_map = load_folder_parent_map(meta_json)
        /\ _open_files = EmptyMap
        /\ _next_fh = 1
        /\ in_pass = NoPass

\* the mutation engine alone: no clock, no external writer
NextMut ==
    \/ CreateFile
    \/ WriteFile
    \/ DeleteFile
    \/ RenameFile
    \/ UpdateFileTime
    \/ TruncateFile
    \/ CreateFolder
    \/ DeleteFolder
    \/ RenameFolder
SpecMut == Init /\ [][NextMut]_vars

\* the synchronization engine against the external writer
NextSync ==
    \/ Tick
    \/ check_and_update_cache
    \/ ExtSetFolders
    \/ ExtRename
    \/ ExtTrash
    \/ ExtCreate
    \/ ExtRenameFolder
SpecSync == Init /\ [][NextSync]_vars

\* delete_file and delete_folder called on paths that resolve
DeleteResolvedFile == DeleteFile /\ ret'.arg.file # None
DeleteResolvedFolder == DeleteFolder /\ ret'.arg.folder # None

\* deletions through the engine, between passes and external renames
NextMix ==
    \/ Tick
    \/ check_and_update_cache
    \/ ExtRename
    \/ DeleteResolvedFile
    \/ DeleteResolvedFolder
SpecMix == Init /\ [][NextMix]_vars

\* the synchronization engine against an external writer that edits the tree
NextTree ==
    \/ Tick
    \/ check_and_update_cache
    \/ ExtRenameFolder
    \/ ExtRemoveFolder
SpecTree == Init /\ [][NextTree]_vars

\* a mount over a library that holds the one asset A1
InitFuse == Init /\ DOMAIN images = {"A1"}

\* write_file and truncate_file on an asset of the cache, rename_file within
\* the parent folder
WriteCached == WriteFile /\ ret'.arg.file_id \in DOMAIN id_map
TruncateCached == TruncateFile /\ ret'.arg.file_id \in DOMAIN id_map
RenameInPlace == RenameFile /\ parent(ret'.arg.old_path) = parent(ret'.arg.new_path)

\* the engine's own asset mutations between reconciliation passes
NextOwn ==
    \/ Tick
    \/ check_and_update_cache
    \/ WriteCached
    \/ TruncateCached
    \/ UpdateFileTime
    \/ RenameInPlace
    \/ DeleteResolvedFile
SpecOwn == InitFuse /\ [][NextOwn]_vars

\* the synchronization engine against an external writer that renames assets
\* and removes them
NextSkip ==
    \/ Tick
    \/ check_and_update_cache
    \/ ExtRename
    \/ ExtPurge
SpecSkip == Init /\ [][NextSkip]_vars

\* an external rename that lands while a pass is in progress
ExtRenameDuringPass == ExtRename /\ in_pass # NoPass

\* passes in two steps against an external writer that writes in between
NextRace ==
    \/ Tick
    \/ BeginPass
    \/ EndPass
    \/ ExtRenameDuringPass
SpecRace == Init /\ [][NextRace]_vars

\* the requests of the adapter, one at a time, and the clock
NextFuse ==
    \/ Tick
    \/ FuseLookup
    \/ FuseGetattr
    \/ FuseOpendir
    \/ FuseReaddir
    \/ FuseOpen
    \/ FuseRead
    \/ FuseWrite
    \/ FuseCreate
    \/ FuseMkdir
    \/ FuseRmdir
    \/ FuseUnlink
    \/ FuseRename
SpecFuse == InitFuse /\ [][NextFuse]_vars

\* ------------------------------------------------------------ views of the cache
\* EagleLibrary._get_parent_inode for an asset: the first folder of its set when
\* that folder is known, the root otherwise
_get_parent_inode(c, file_id) ==
    LET obj == c.fheap[c.id_map[file_id]]
    IN  IF obj.folders # <<>>
        THEN IF obj.folders[1] \in DOMAIN c.dir_map THEN obj.folders[1] ELSE ROOT_ID
        ELSE ROOT_ID

\* the children map of a folder holds an entry for the asset
listed(c, folder_id, file_id) ==
    \E n \in DOMAIN Get2(c.dir_file_map, folder_id) :
        c.fheap[c.dir_file_map[folder_id][n]].id = file_id

\* the folders whose children map holds the asset
folders_listing(c, file_id) == {f \in DOMAIN c.dir_file_map : listed(c, f, file_id)}

\* the elements of a list
Range(seq) == {seq[i] : i \in DOMAIN seq}

\* ------------------------------------------------------------ C1
\* C1: when create_file of P/N.E has returned for a folder P of the cache and a
\* name N.E that did not resolve under P, get_file of P/N.E returns the asset
\* just created, and that asset has size 0 and extension E.
C1_CreateThenResolve ==
    (/\ ret.op = "create_file"
     /\ ret.outcome = "none"
     /\ ~ret.arg.existed
     /\ suffix(name_of(ret.arg.path)) # ""
     /\ parent(ret.arg.path) \in DOMAIN path_dir_map)
    => LET a == get_file(World, ret.arg.path)
       IN  /\ a # None
           /\ fheap[a].id = ret.arg.new_id
           /\ fheap[a].size = 0
           /\ fheap[a].ext = suffix(name_of(ret.arg.path))

\* ------------------------------------------------------------ C2
\* C2: the parent reported for every cached asset, an asset with an empty folder
\* set included, has the asset in its children map.
C2_ParentListsAsset ==
    \A file_id \in DOMAIN id_map : listed(World, _get_parent_inode(World, file_id), file_id)

\* ------------------------------------------------------------ C3
\* C3: a cached asset with an empty folder set is in the children map of the
\* unclassified folder and of no other; a cached asset with a non-empty set is in
\* the children maps of exactly the folders of its set.
C3_Membership ==
    \A file_id \in DOMAIN id_map :
        LET obj == fheap[id_map[file_id]]
        IN  folders_listing(World, file_id)
              = IF obj.folders = <<>> THEN {NULL_ID} ELSE Range(obj.folders)

\* ------------------------------------------------------------ steps of the pass
\* the step is a trigger of check_and_update_cache
Trigger == ret'.op = "check_and_update_cache"
\* the step executed _update_cache, which returned
Completes == Trigger /\ ret'.outcome = "none"
\* the step executed _update_cache, which raised
Aborts == Trigger /\ ret'.outcome \notin {"none", "throttled"}
\* the pass of this step processes k: its entry in mtime.json is newer than the watermark
Pending(k) ==
    /\ meta_json.modificationTime <= meta.modificationTime
    /\ k \in DOMAIN images
    /\ k \in DOMAIN mtime_json.val
    /\ newer(mtime_json.val[k], update_time)

\* ------------------------------------------------------------ C4
\* C4: when a pass completes that found a cached asset, filed under one or more
\* folders, deleted in its metadata and newer than the watermark in mtime.json,
\* the asset is in the children map of none of the folders it was filed under
\* and is not in id_map.
C4_SoftDeletePurged ==
    [][\A k \in DOMAIN id_map :
          (/\ Completes
           /\ Pending(k)
           /\ images[k].isDeleted
           /\ fheap[id_map[k]].folders # <<>>)
          => /\ k \notin DOMAIN id_map'
             /\ \A f \in Range(fheap[id_map[k]].folders) : ~listed(World', f, k)]_vars

\* ------------------------------------------------------------ C5
\* C5: when a pass completes that found a cached asset, not deleted, with a
\* folder set in its metadata that differs from the cached one, the asset is in
\* the children maps of exactly the folders of the new set, the unclassified
\* folder standing for the empty set.
C5_FoldersFollowStore ==
    [][\A k \in DOMAIN id_map :
          (/\ Completes
           /\ Pending(k)
           /\ ~images[k].isDeleted
           /\ images[k].folders # fheap[id_map[k]].folders)
          => folders_listing(World', k)
               = IF images[k].folders = <<>> THEN {NULL_ID}
                 ELSE Range(images[k].folders)]_vars

\* ------------------------------------------------------------ C6
\* C6: a pass that completes when a pass has completed before it and neither the
\* store nor the cache was written in between leaves id_map, dir_map,
\* dir_file_map and path_dir_map, and the objects they hold, as they were.
C6_SecondPassChangesNothing ==
    [][(quiet >= 1 /\ Completes)
          => UNCHANGED <<id_map, dir_map, dir_file_map, path_dir_map, fheap, dheap>>]_vars

\* two passes have completed in a row over an unchanged store, the first of them
\* after an external write newer than the watermark
C6_Witness ==
    /\ quiet = 2
    /\ ops > 0
    /\ ret.op = "check_and_update_cache"
    /\ ret.outcome = "none"

\* ------------------------------------------------------------ C7
\* C7 as stated: any two executions of the pass are at least Throttle apart,
\* whatever the outcome of the earlier one.
C7_AlwaysApart ==
    [][(Trigger /\ ret'.outcome # "throttled" /\ last_run # NoRun)
          => clock - last_run.t >= Throttle]_vars

\* C7 amended: an execution of the pass that follows one that returned starts at
\* least Throttle after it; a trigger less than Throttle after an execution that
\* returned executes no pass and changes neither the store nor the cache.
C7_ApartAfterReturn ==
    [][(Trigger /\ last_run.ok)
          => IF clock - last_run.t < Throttle
             THEN /\ ret'.outcome = "throttled"
                  /\ UNCHANGED <<store_vars, cache_vars, update_time, last_check_time,
                                 last_run>>
             ELSE ret'.outcome # "throttled"]_vars

\* a trigger was throttled after two executions that returned
C7_Witness ==
    /\ ret.op = "check_and_update_cache"
    /\ ret.outcome = "throttled"
    /\ last_run.ok
    /\ quiet = 2

\* ------------------------------------------------------------ C8
\* C8: update_time changes only in a step of check_and_update_cache whose pass
\* returned; after a pass that raised, the next trigger is not throttled.
C8_Watermark ==
    /\ [][update_time' # update_time => Completes]_vars
    /\ []((ret.op = "check_and_update_cache" /\ ret.outcome \notin {"none", "throttled"})
            => ~throttled(clock, last_check_time))

\* a pass has raised on an entry newer than the watermark and the watermark
\* is still older than that entry
C8_Witness ==
    /\ ret.op = "check_and_update_cache"
    /\ ret.outcome = "KeyError"
    /\ \E k \in DOMAIN mtime_json.val : mtime_json.val[k] > update_time
    /\ ~throttled(clock, last_check_time)

\* ------------------------------------------------------------ C9
\* a folder object with its children by identifier
ref_id(c, r) == IF r.k = "meta" THEN r.id ELSE IF r.k = "void" THEN NULL_ID ELSE c.dheap[r.a].id
folder_view(c, a) ==
    [c.dheap[a] EXCEPT !.children_ = [i \in DOMAIN @ |-> ref_id(c, @[i])]]
\* the four maps with every object in place of its address, empty children maps left out
cache_view(c) ==
    [id_map |-> [k \in DOMAIN c.id_map |-> c.fheap[c.id_map[k]]],
     dir_map |-> [k \in DOMAIN c.dir_map |-> folder_view(c, c.dir_map[k])],
     dir_file_map |-> [f \in {g \in DOMAIN c.dir_file_map : DOMAIN c.dir_file_map[g] # {}} |->
                          [n \in DOMAIN c.dir_file_map[f] |-> c.fheap[c.dir_file_map[f][n]]]],
     path_dir_map |-> [p \in DOMAIN c.path_dir_map |-> folder_view(c, c.path_dir_map[p])]]

\* C9: when a pass completes, no entry of mtime.json being stamped at the very
\* millisecond of the watermark, the four maps equal those that an initial load
\* of the store builds, for some order of listing the assets.
C9_PassEqualsFreshLoad ==
    [][(/\ Completes
        /\ \A k \in DOMAIN mtime_json.val : mtime_json.val[k] # update_time)
          => \E order \in Orders(DOMAIN images') :
                cache_view(World')
                  = cache_view(_init_cache(Fresh(meta_json', images', mtime_json', content'),
                                           order, clock'))]_vars

\* ------------------------------------------------------------ C10
\* C10: delete_folder of a folder whose children map holds an asset raises the
\* not-empty error and leaves the store and the cache as they were.
C10_DeleteNonEmptyFolder ==
    [][(/\ ret'.op = "delete_folder"
        /\ get_folder(World, ret'.arg.path) # None
        /\ DOMAIN Get2(dir_file_map, dheap[get_folder(World, ret'.arg.path)].id) # {})
          => /\ ret'.outcome = "OSError: Directory not empty"
             /\ UNCHANGED <<store_vars, cache_vars>>]_vars

\* delete_folder has refused a folder without sub-folders that holds an asset
C10_Witness ==
    /\ ret.op = "delete_folder"
    /\ ret.outcome = "OSError: Directory not empty"
    /\ ret.arg.folder # None
    /\ dheap[ret.arg.folder].children_ = <<>>
    /\ DOMAIN Get2(dir_file_map, dheap[ret.arg.folder].id) # {}

\* ------------------------------------------------------------ C11
\* the folders of the cache registered directly under a path
sub_folders(c, path) ==
    {q \in DOMAIN c.path_dir_map : q # <<>> /\ parent(q) = path}

\* C11: delete_folder of a folder under which the cache registers a sub-folder,
\* loaded at mount or created since, raises the not-empty error and leaves the
\* store and the cache as they were.
C11_DeleteFolderWithSubFolder ==
    [][(/\ ret'.op = "delete_folder"
        /\ get_folder(World, ret'.arg.path) # None
        /\ sub_folders(World, ret'.arg.path) # {})
          => /\ ret'.outcome = "OSError: Directory not empty"
             /\ UNCHANGED <<store_vars, cache_vars>>]_vars

\* ------------------------------------------------------------ C12
\* path q lies strictly below path p
below(q, p) == Len(q) > Len(p) /\ SubSeq(q, 1, Len(p)) = p

\* C12: rename_folder of a folder to a destination inside its own subtree
\* raises and leaves the store and the cache as they were.
C12_NoMoveIntoOwnSubtree ==
    [][(/\ ret'.op = "rename_folder"
        /\ get_folder(World, ret'.arg.old_path) # None
        /\ below(ret'.arg.new_path, ret'.arg.old_path))
          => /\ ret'.outcome # "none"
             /\ UNCHANGED <<store_vars, cache_vars>>]_vars

\* ------------------------------------------------------------ C13
\* the folder registered at parent_path has an asset whose full name is full
has_child_named(c, parent_path, full) ==
    /\ parent_path \in DOMAIN c.path_dir_map
    /\ \E n \in DOMAIN Get2(c.dir_file_map, c.dheap[c.path_dir_map[parent_path]].id) :
          fullname(c.fheap[c.dir_file_map[c.dheap[c.path_dir_map[parent_path]].id][n]]) = full

\* C13: create_file of name.ext under a parent that has an asset named name.ext
\* raises, and writes neither the store nor the cache (the identifier drawn
\* being an unused one).
C13_CreateExistingFails ==
    [][(/\ ret'.op = "create_file"
        /\ ret'.arg.new_id \notin DOMAIN images
        /\ has_child_named(World, parent(ret'.arg.path), name_of(ret'.arg.path)))
          => /\ ret'.outcome # "none"
             /\ UNCHANGED <<store_vars, cache_vars>>]_vars

\* ------------------------------------------------------------ C14
\* C14: create_folder of a path that already resolves, to a folder or to an
\* asset, raises and leaves the store and the cache as they were.
C14_CreateExistingFolderFails ==
    [][(/\ ret'.op = "create_folder"
        /\ ret'.arg.new_id \notin DOMAIN dir_map
        /\ \/ get_folder(World, ret'.arg.path) # None
           \/ get_file(World, ret'.arg.path) # None)
          => /\ ret'.outcome # "none"
             /\ UNCHANGED <<store_vars, cache_vars>>]_vars

\* ------------------------------------------------------------ C15
\* C15: the cache registers no folder under the unclassified folder, and a
\* create_folder aimed there has raised.
C15_NoFolderUnderUnclassified ==
    /\ sub_folders(World, <<VOID_NAME>>) = {}
    /\ (ret.op = "create_folder" /\ parent(ret.arg.path) = <<VOID_NAME>>)
         => ret.outcome # "none"

\* ------------------------------------------------------------ C16
\* what a new instance builds from the store as it is
fresh_load(order) == _init_cache(Fresh(meta_json, images, mtime_json, content), order, clock)

\* C16: after create_folder of P/N has returned, P not being the unclassified
\* folder, an initial load of the store resolves P/N.
C16_CreatedFolderPersisted ==
    (/\ ret.op = "create_folder"
     /\ ret.outcome = "none"
     /\ parent(ret.arg.path) # <<VOID_NAME>>)
    => \A order \in Orders(DOMAIN images) :
          get_folder(fresh_load(order), ret.arg.path) # None

\* ------------------------------------------------------------ C17
\* the identifiers of the folders of a persisted tree
RECURSIVE tree_ids(_)
tree_ids(fs) ==
    IF fs = <<>> THEN {}
    ELSE {Head(fs).id} \cup tree_ids(Head(fs).children_) \cup tree_ids(Tail(fs))

\* the identifiers in the children_ lists of the folder objects of the cache
cached_child_ids(c) ==
    UNION {{ref_id(c, c.dheap[a].children_[i]) : i \in DOMAIN c.dheap[a].children_} :
             a \in DOMAIN c.dheap}

\* the identifiers of the folders registered under some path
path_ids(c) == {c.dheap[c.path_dir_map[q]].id : q \in DOMAIN c.path_dir_map}

\* C17: when delete_folder returns for a folder of the library without
\* sub-folders and without assets, the folder's identifier is gone from metadata.json, from dir_map,
\* from path_dir_map and from the children_ list of every cached folder.
C17_DeletedFolderGone ==
    [][(/\ ret'.op = "delete_folder"
        /\ ret'.outcome = "none"
        /\ get_folder(World, ret'.arg.path) # None
        /\ ret'.arg.path # <<VOID_NAME>>
        /\ sub_folders(World, ret'.arg.path) = {})
          => LET folder_id == dheap[get_folder(World, ret'.arg.path)].id
             IN  /\ folder_id \notin tree_ids(meta_json'.folders)
                 /\ folder_id \notin DOMAIN dir_map'
                 /\ folder_id \notin path_ids(World')
                 /\ folder_id \notin cached_child_ids(World')]_vars

\* ------------------------------------------------------------ C18
\* C18: when delete_file is called on a path that resolves to an asset, then
\* after the call the asset is in no folder's children map and not in id_map,
\* and its record in images/ exists with isDeleted = true.
C18_DeletedAssetGone ==
    [][(/\ ret'.op = "delete_file"
        /\ get_file(World, ret'.arg.path) # None)
          => LET file_id == fheap[get_file(World, ret'.arg.path)].id
             IN  /\ folders_listing(World', file_id) = {}
                 /\ file_id \notin DOMAIN id_map'
                 /\ file_id \in DOMAIN images'
                 /\ images'[file_id].isDeleted]_vars

\* ------------------------------------------------------------ C19
\* the asset is soft-deleted in the store and gone from the cache
asset_gone(c, id) ==
    /\ id \in DOMAIN c.images /\ c.images[id].isDeleted
    /\ id \notin DOMAIN c.id_map
    /\ folders_listing(c, id) = {}

\* the folder of the library at mount is gone from the cache
folder_gone(c, id) == id \notin DOMAIN c.dir_map /\ id \notin path_ids(c)

\* C19: an asset that the engine soft-deleted and dropped from the cache stays
\* out of the cache when the cache is initialized again from the store, and so
\* do the folders of the library once the engine has purged every one of them
\* (no external application writes to the store in SpecMut).
C19_NoResurrection ==
    \A order \in Orders(DOMAIN images) :
        /\ \A id \in DOMAIN images :
               asset_gone(World, id) => asset_gone(fresh_load(order), id)
        /\ (\A id \in tree_ids(InitTree) : folder_gone(World, id))
               => \A id \in tree_ids(InitTree) : folder_gone(fresh_load(order), id)

\* ------------------------------------------------------------ C20
\* the instance over a store that refuses the write of an asset's metadata.json
Failing == [World EXCEPT !.write_fails = TRUE]

CreateFileWriteFails ==
    \E path \in FilePaths, new_id \in IdPool :
        /\ ops < MaxOps
        /\ Call("create_file",
                [path |-> path, new_id |-> new_id, existed |-> get_file(World, path) # None],
                create_file(Failing, path, new_id, clock))

WriteFileWriteFails ==
    \E file_id \in AssetIds, len \in WriteLens :
        /\ ops < MaxOps
        /\ file_id \in DOMAIN id_map
        /\ Call("write_file", [file_id |-> file_id, len |-> len, offset |-> 0],
                write_file(Failing, file_id, len, 0, clock))

DeleteFileWriteFails ==
    \E path \in FilePaths :
        /\ ops < MaxOps
        /\ get_file(World, path) # None
        /\ Call("delete_file", [path |-> path, file |-> get_file(World, path)],
                delete_file(Failing, path, clock))

RenameFileWriteFails ==
    \E old_path \in FilePaths, new_path \in FilePaths :
        /\ ops < MaxOps
        /\ get_file(World, old_path) # None
        /\ Call("rename_file", [old_path |-> old_path, new_path |-> new_path],
                rename_file(Failing, old_path, new_path, clock))

UpdateFileTimeWriteFails ==
    \E path \in FilePaths, times \in TouchTimes :
        /\ ops < MaxOps
        /\ get_file(World, path) # None
        /\ Call("update_file_time", [path |-> path, times |-> times],
                update_file_time(Failing, path, times, clock))

TruncateFileWriteFails ==
    \E file_id \in AssetIds, length \in TruncateLens :
        /\ ops < MaxOps
        /\ file_id \in DOMAIN id_map
        /\ Call("truncate_file", [file_id |-> file_id, length |-> length],
                truncate_file(Failing, file_id, length, clock))

\* the asset mutations against a store that refuses every metadata write
NextFault ==
    \/ CreateFileWriteFails
    \/ WriteFileWriteFails
    \/ DeleteFileWriteFails
    \/ RenameFileWriteFails
    \/ UpdateFileTimeWriteFails
    \/ TruncateFileWriteFails
SpecFault == Init /\ [][NextFault]_vars

\* C20: when an asset mutation ends with the metadata write raising, the four
\* cache maps and the field values of the File objects they hold are the same
\* as before the call.
C20_FailureAtomicity ==
    [][ret'.outcome = "OSError: metadata.json"
          => cache_view(World') = cache_view(World)]_vars

\* the requests the adapter serves
AdapterOps ==
    {"lookup", "getattr", "opendir", "readdir", "open", "read", "write", "create",
     "mkdir", "rmdir", "unlink", "rename"}

\* C21: every request of the adapter runs the throttle check before it reads or
\* changes the cache: a request that arrives when the throttle interval has
\* run out since the last check leaves the time of the last check at the
\* time of the request.
C21_ThrottleCheckFirst ==
    [][(ops' = ops + 1 /\ ret'.op \in AdapterOps /\ ~throttled(clock, last_check_time))
          => last_check_time' = clock]_vars

\* the inodes of the directories: the root and every folder node
directories == {ROOT_INODE} \cup {i \in DOMAIN inode_map : is_folder(inode_map[i])}

\* C22: in every reachable state getattr on a directory (the root, the
\* unclassified folder, a folder node) reports a directory whose link count is
\* 2 plus the number of its children that are folders, and getattr on an asset
\* reports a regular file with the size of the asset.
C22_LinkCount ==
    /\ \A i \in directories :
          /\ getattr(Projection, i).st_mode = "S_IFDIR"
          /\ getattr(Projection, i).st_nlink = 2 + subdir_count(Projection, i)
    /\ \A i \in DOMAIN inode_map \ directories :
          /\ getattr(Projection, i).st_mode = "S_IFREG"
          /\ getattr(Projection, i).st_size = inode_map[i].size

\* C23: lookup of a name that does not exist under a parent that is in the
\* cache returns a negative result that differs from the outcome of the same
\* lookup under a parent inode that is not in the cache.
C23_NegativeDistinct ==
    \A parent_inode \in DOMAIN children_map, name \in EntryNames,
       absent \in Inodes \ (DOMAIN children_map \cup DOMAIN inode_map) :
        name \notin DOMAIN children_map[parent_inode]
            => lookup(Projection, parent_inode, name) # lookup(Projection, absent, name)

\* C24: in every reachable state, also after delete_folder, rename_folder or
\* create_folder aimed at it, the unclassified folder resolves under the root
\* by its fixed name and its identifier is not in the persisted folder tree.
C24_VoidFolderFixed ==
    /\ get_folder(World, <<VOID_NAME>>) # None
    /\ dheap[get_folder(World, <<VOID_NAME>>)].id = NULL_ID
    /\ NULL_ID \notin tree_ids(meta_json.folders)

\* C25: when a pass finds the folder tree of the store changed, every folder
\* that was in the cache and whose identifier is not in the tree it re-read
\* is out of the identifier map and resolves by no path after the pass.
C25_StaleFoldersPurged ==
    [][(Completes /\ newer(meta_json.modificationTime, meta.modificationTime))
          => \A id \in DOMAIN dir_map \ {ROOT_ID, NULL_ID} :
                id \notin tree_ids(meta_json'.folders) => folder_gone(World', id)]_vars

\* C26: a rename or move whose destination name already exists fails with
\* already-exists and changes neither the cache nor the store (the engine's
\* rename_file and rename_folder take no overwrite request).
C26_NoSilentOverwrite ==
    [][(/\ ret'.op \in {"rename_file", "rename_folder"}
        /\ ops' = ops + 1
        /\ ret'.arg.old_path # ret'.arg.new_path
        /\ \/ get_file(World, ret'.arg.new_path) # None
           \/ get_folder(World, ret'.arg.new_path) # None)
          => /\ ret'.outcome = "EEXIST"
             /\ cache_view(World') = cache_view(World)
             /\ UNCHANGED store_vars]_vars

\* the folder at a path holds a sub-folder or an asset
not_empty(c, path) ==
    \/ sub_folders(c, path) # {}
    \/ DOMAIN Get2(c.dir_file_map, c.dheap[get_folder(c, path)].id) # {}

\* C27: a rename onto an existing destination folder that is not empty of
\* sub-folders and assets fails with not-empty and leaves source and
\* destination unchanged in the cache and in the store.
C27_OverwriteOnlyEmpty ==
    [][(/\ ret'.op \in {"rename_file", "rename_folder"}
        /\ ops' = ops + 1
        /\ ret'.arg.old_path # ret'.arg.new_path
        /\ get_folder(World, ret'.arg.new_path) # None
        /\ not_empty(World, ret'.arg.new_path))
          => /\ ret'.outcome = "ENOTEMPTY"
             /\ cache_view(World') = cache_view(World)
             /\ UNCHANGED store_vars]_vars

\* the identifiers of the assets and folders in the cache or in the store
present_ids ==
    DOMAIN id_map \cup DOMAIN images \cup DOMAIN dir_map \cup tree_ids(meta_json.folders)

\* C28: the identifier that a completed create_file or create_folder gave the
\* new node differs from the identifier of every asset and folder that was in
\* the cache or in the store when it was called.
C28_FreshIdentifier ==
    [][(/\ ret'.op \in {"create_file", "create_folder"}
        /\ ops' = ops + 1
        /\ ret'.outcome = "none")
          => ret'.arg.new_id \notin present_ids]_vars

\* C29: in every reachable state the cached folder graph hangs from the root:
\* every registered folder path other than the root has its parent path
\* registered too, also after a folder with sub-folders was renamed or moved
\* and after a folder was deleted.
C29_FolderGraphConnected ==
    \A q \in DOMAIN path_dir_map : q # <<>> => parent(q) \in DOMAIN path_dir_map

\* the identifiers under which a folder hangs in a persisted tree
tree_parents(fs, id) == {n.parent : n \in {m \in tree_nodes(fs, ROOT_ID) : m.id = id}}

\* C30: after a rename that moves a folder of the tree to a free name under a
\* different parent folder (not into itself), the persisted tree holds
\* the folder under the new parent and no longer under the old one, and the
\* cache resolves it at the new path and not at the old one.
C30_FolderMoved ==
    [][(/\ ret'.op = "rename_folder"
        /\ ops' = ops + 1
        /\ ret'.outcome = "none"
        /\ get_folder(World, ret'.arg.old_path) # None
        /\ dheap[get_folder(World, ret'.arg.old_path)].id \in tree_ids(meta_json.folders)
        /\ parent(ret'.arg.new_path) # parent(ret'.arg.old_path)
        /\ ~below(ret'.arg.new_path, ret'.arg.old_path)
        /\ get_folder(World, ret'.arg.new_path) = None
        /\ get_folder(World, parent(ret'.arg.new_path)) # None
        /\ dheap[get_folder(World, parent(ret'.arg.new_path))].id # NULL_ID)
          => LET id == dheap[get_folder(World, ret'.arg.old_path)].id
                 new_parent == dheap[get_folder(World, parent(ret'.arg.new_path))].id
             IN  /\ tree_parents(meta_json'.folders, id) = {new_parent}
                 /\ get_folder(World', ret'.arg.new_path) # None
                 /\ dheap'[get_folder(World', ret'.arg.new_path)].id = id
                 /\ get_folder(World', ret'.arg.old_path) = None]_vars

\* the paths at which get_file resolves the asset with an identifier
paths_of(c, id) ==
    {path \in FilePaths : get_file(c, path) # None /\ c.fheap[get_file(c, path)].id = id}

\* C31: right after write_file, truncate_file, update_file_time or rename_file
\* returns for an asset that resolved by path, get_file on its path (the new
\* path after rename_file) yields the size, times and name the call has just
\* persisted, however many reconciliation passes ran before the call.
C31_OwnMutationVisible ==
    [][(ops' = ops + 1 /\ ret'.outcome = "none")
          => /\ (/\ ret'.op \in {"write_file", "truncate_file"}
                 /\ ret'.arg.file_id \in DOMAIN id_map)
                   => \A path \in paths_of(World, ret'.arg.file_id) :
                         /\ get_file(World', path) # None
                         /\ fheap'[get_file(World', path)] = images'[ret'.arg.file_id]
             /\ ret'.op = "update_file_time"
                   => /\ get_file(World', ret'.arg.path) # None
                      /\ fheap'[get_file(World', ret'.arg.path)]
                           = images'[fheap[get_file(World, ret'.arg.path)].id]
             /\ ret'.op = "rename_file"
                   => /\ get_file(World', ret'.arg.new_path) # None
                      /\ fheap'[get_file(World', ret'.arg.new_path)]
                           = images'[fheap[get_file(World, ret'.arg.old_path)].id]]_vars

\* the folders an asset record is filed under, the unclassified one if none
filed_in(rec) == IF rec.folders = <<>> THEN {NULL_ID} ELSE Range(rec.folders)

\* C32: when a completed pass processes a non-deleted asset whose record in
\* the store changed while its folder set did not, every folder the asset
\* is filed under then lists it under the name of the record, with the
\* field values of the record, and no longer lists it under another name.
C32_InPlaceUpdateVisible ==
    [][\A k \in DOMAIN id_map :
          (/\ Completes
           /\ Pending(k)
           /\ ~images[k].isDeleted
           /\ images[k].folders = fheap[id_map[k]].folders
           /\ images[k] # fheap[id_map[k]])
          => \A f \in filed_in(images[k]) :
                /\ images[k].name \in DOMAIN Get2(dir_file_map', f)
                /\ fheap'[dir_file_map'[f][images[k].name]] = images[k]
                /\ \A n \in DOMAIN Get2(dir_file_map', f) :
                      fheap'[dir_file_map'[f][n]].id = k => n = images[k].name]_vars

\* the entries of the change index that are newer than the watermark
stamped == IF mtime_json = NoFile THEN {}
           ELSE {k \in DOMAIN mtime_json.val : newer(mtime_json.val[k], update_time)}

\* C33: when a pass over the change index meets an entry whose metadata
\* cannot be loaded, it skips that entry only: the pass returns normally and
\* advances the watermark, and every other entry newer than the watermark is
\* applied to the identifier map.
C33_UnreadableSkipped ==
    [][(/\ Trigger
        /\ ret'.outcome # "throttled"
        /\ ret'.arg = "none"
        /\ meta_json.modificationTime <= meta.modificationTime
        /\ stamped \ DOMAIN images # {})
          => /\ ret'.outcome = "none"
             /\ update_time' = clock
             /\ \A k \in (stamped \cap DOMAIN images) \cap DOMAIN id_map :
                   k \in DOMAIN id_map' /\ fheap'[id_map'[k]] = images[k]]_vars

\* C34: rename_file to another name under the same parent folder leaves the
\* folder-identifier set of the asset as it was, in the store and in the
\* cache, memberships in other folders included.
C34_RenameKeepsFolders ==
    [][(/\ ret'.op = "rename_file"
        /\ ops' = ops + 1
        /\ ret'.outcome = "none"
        /\ get_file(World, ret'.arg.old_path) # None
        /\ ret'.arg.old_path # ret'.arg.new_path
        /\ parent(ret'.arg.old_path) = parent(ret'.arg.new_path))
          => LET id == fheap[get_file(World, ret'.arg.old_path)].id
             IN  /\ images'[id].folders = images[id].folders
                 /\ fheap'[id_map'[id]].folders = fheap[get_file(World, ret'.arg.old_path)].folders]_vars

\* the asset a step of the mutation engine has just changed, if any
mutated ==
    IF ops' # ops + 1 \/ ret'.outcome # "none" THEN {}
    ELSE IF ret'.op = "create_file" THEN {ret'.arg.new_id}
    ELSE IF ret'.op \in {"write_file", "truncate_file"}
    THEN {ret'.arg.file_id} \cap DOMAIN id_map
    ELSE IF ret'.op \in {"update_file_time", "delete_file"}
    THEN {fheap[a].id : a \in {get_file(World, ret'.arg.path)} \ {None}}
    ELSE IF ret'.op = "rename_file"
    THEN {fheap[a].id : a \in {get_file(World, ret'.arg.old_path)} \ {None}}
    ELSE {}

\* C35: every asset mutation that succeeds (create, write, truncate, touch,
\* rename, soft-delete) leaves the asset's entry of mtime.json at a time not
\* earlier than the modificationTime it persisted for the asset, and leaves
\* the entries of all other assets as they were.
C35_ChangeIndexStamped ==
    [][\A id \in mutated :
          /\ id \in DOMAIN mtime_json'.val
          /\ mtime_json'.val[id] >= images'[id].modificationTime
          /\ DOMAIN mtime_json'.val = DOMAIN mtime_json.val \cup {id}
          /\ \A k \in DOMAIN mtime_json.val \ {id} :
                mtime_json'.val[k] = mtime_json.val[k]]_vars

\* a write to one of two indexed assets has stamped it, and only it
C35_Witness ==
    /\ ret.op = "write_file"
    /\ ret.outcome = "none"
    /\ ret.arg.file_id \in DOMAIN id_map
    /\ mtime_json.val[ret.arg.file_id] = clock
    /\ images[ret.arg.file_id].modificationTime = clock
    /\ \E k \in DOMAIN mtime_json.val : mtime_json.val[k] < clock

\* C36: an active asset that an external writer created (stamped in the change
\* index newer than the watermark, not yet in the cache) is listed in each of
\* its folders, or in the unclassified folder if it has none, after the next
\* pass that executes.
C36_ExternalCreateAppears ==
    [][\A k \in DOMAIN images \ DOMAIN id_map :
          (/\ Trigger
           /\ ret'.outcome # "throttled"
           /\ ret'.arg = "none"
           /\ Pending(k)
           /\ ~images[k].isDeleted)
          => /\ k \in DOMAIN id_map'
             /\ \A f \in filed_in(images[k]) : listed(World', f, k)]_vars

\* C37: no external change is missed for good: when a pass ends, an asset that
\* an external writer updated and stamped after the pass had read the change
\* index (the stamp was newer than the watermark) either has its new record in
\* the identifier map or is still due for a later pass, its stamp being newer
\* than the watermark the pass has set.
C37_NoPermanentMiss ==
    [][\A k \in DOMAIN id_map \cap DOMAIN images :
          (/\ in_pass # NoPass
           /\ in_pass' = NoPass
           /\ ret'.outcome = "none"
           /\ k \in DOMAIN in_pass.index.val
           /\ mtime_json.val[k] > in_pass.index.val[k]
           /\ newer(mtime_json.val[k], update_time))
          => \/ k \in DOMAIN id_map' /\ fheap'[id_map'[k]] = images[k]
             \/ newer(mtime_json.val[k], update_time')]_vars

\* C38: after the engine's own mutations, delete_file among them, every pass
\* that executes without a read fault of metadata.json or mtime.json returns
\* normally and advances the watermark.
C38_PassStaysLive ==
    [][(Trigger /\ ret'.outcome # "throttled" /\ ret'.arg = "none")
          => ret'.outcome = "none" /\ update_time' = clock]_vars

\* C39: rmdir removes folder nodes only.  An rmdir whose name resolves to an
\* asset fails with an error and leaves the asset in the projection and active
\* in the store; an unlink whose name resolves to a folder fails with EISDIR
\* and leaves the folder in the projection.
C39_RmdirOnlyFolders ==
    [][\A i \in DOMAIN inode_map :
          (/\ ops' = ops + 1
           /\ ret'.op \in {"rmdir", "unlink"}
           /\ ret'.arg.name \in DOMAIN Get2(children_map, ret'.arg.parent_inode)
           /\ children_map[ret'.arg.parent_inode][ret'.arg.name] = i)
          => /\ (ret'.op = "rmdir" /\ ~is_folder(inode_map[i]))
                   => /\ ret'.outcome # "none"
                      /\ i \in DOMAIN inode_map'
                      /\ ~images'[i].isDeleted
             /\ (ret'.op = "unlink" /\ is_folder(inode_map[i]))
                   => /\ ret'.outcome = "EISDIR"
                      /\ i \in DOMAIN inode_map']_vars

\* C40: a rename never deletes its own source node, and a rename whose source
\* and destination are the same entry (same parent, same name) leaves the node
\* in the projection, under its name, unchanged and, for an asset, active.
C40_RenameKeepsSource ==
    [][\A i \in DOMAIN inode_map :
          (/\ ops' = ops + 1
           /\ ret'.op = "rename"
           /\ ret'.arg.name_old \in DOMAIN Get2(children_map, ret'.arg.parent_inode_old)
           /\ children_map[ret'.arg.parent_inode_old][ret'.arg.name_old] = i)
          => /\ i \in DOMAIN inode_map'
             /\ (/\ ret'.arg.parent_inode_new = ret'.arg.parent_inode_old
                 /\ ret'.arg.name_new = ret'.arg.name_old)
                   => /\ inode_map'[i] = inode_map[i]
                      /\ ret'.arg.name_old \in DOMAIN children_map'[ret'.arg.parent_inode_old]
                      /\ children_map'[ret'.arg.parent_inode_old][ret'.arg.name_old] = i
                      /\ i \in DOMAIN images => images'[i] = images[i]]_vars

====
